---- MODULE Spec2Model ----
(***************************************************************************)
(* Model of the scribe-forge-ai transcription pipeline: main.py and the    *)
(* Diarizer, Transcriber and OutputFormatter it drives.                    *)
(*                                                                         *)
(* Times are kept as integers in sample units (seconds * sample_rate), so  *)
(* i / sample_rate in the source is the integer i here.  A midpoint        *)
(* (start + end) / 2 is kept doubled (start + end) and compared against    *)
(* doubled interval bounds, which is the same comparison in exact          *)
(* arithmetic.                                                             *)
(***************************************************************************)
EXTENDS Integers, Sequences, FiniteSets, TLC

VARIABLES
    \* ---- Diarizer.diarize (src/src/diarizer.py) ----
    dpc,                \* position inside diarize
    audio_len,          \* len(audio) after librosa.load(sr=16000), in samples
    timestamps,         \* list of (start, end) from _segment_audio
    embed_outcome,      \* per window: what preprocess/embed did
    embeddings,         \* per window: "emb" (encoder output) or "zero"
    speaker_labels,     \* labels after _cluster_speakers / _merge_similar_speakers
    cluster_labels,     \* labels as _cluster_speakers returned them
    similarity,         \* cosine similarity of each pair of centroids
    diar_return,        \* value returned by diarize
    dlog,               \* warnings logged by the diarizer
    \* ---- align_with_transcription on a heap of dict objects ----
    heap,               \* object id -> dict contents
    heap0,              \* the heap as it was when align was called
    t_ref,              \* id of the input transcription_result
    d_ref,              \* id of the input diarization_result
    r_ref,              \* id of the value align_with_transcription returned (0: none)
    apc,                \* position of the alignment call
    \* ---- Transcriber.transcribe (src/src/transcriber.py) ----
    tpc,                \* position inside transcribe
    targs,              \* audio_path, model_size, language of the call
    tenv,               \* use_faster_whisper, cuda available, local model directory
    tcalls,             \* backend invocations made, in order
    tfail,              \* where each backend failed ("none" if it did not)
    traw,               \* raw value the backend that answered produced
    t_return,           \* value transcribe returned
    tlog,               \* messages logged by the transcriber
    \* ---- main (src/main.py) ----
    pc,                 \* position inside main
    args,               \* the argparse namespace (main rewrites output, device, diarize)
    args0,              \* the namespace as parsed
    env,                \* torch, DIARIZER_AVAILABLE
    input_is_file,      \* "unknown" until main has looked
    decodable,          \* "unknown" until librosa.load was tried on the input
    exit_status,        \* -1 while the process runs
    exit_cause,         \* why the process ended
    trace,              \* pipeline stages run so far: <<stage, outcome>>
    log,                \* main's log records: <<level, message>>
    fs,                 \* directories and files the run has created
    loaded,             \* models loaded: [model, device]
    written,            \* files save_output wrote: [path, serialization, data]
    \* ---- AudioProcessor / AudioEnhancer on a waveform ----
    ppc,                \* position inside the call
    p_args,             \* arguments of the call
    audio0,             \* the waveform as loaded / passed in
    audio,              \* the waveform being transformed
    p_locals,           \* local variables of the call
    steps,              \* transformations applied so far, in order
    p_out,              \* what the call wrote or returned
    \* ---- OutputFormatter._save_json and a reader of its file ----
    jpc,                \* position: "called", "saved", "read"
    j_result,           \* the result handed to _save_json
    j_file,             \* the text of the file, as JSON tokens
    j_read              \* what json.load returns for the file

vars == <<dpc, audio_len, timestamps, embed_outcome, embeddings, speaker_labels,
          cluster_labels, similarity, diar_return, dlog, heap, heap0, t_ref, d_ref, r_ref, apc,
          tpc, targs, tenv, tcalls, tfail, traw, t_return, tlog,
          pc, args, args0, env, input_is_file, decodable, exit_status, exit_cause,
          trace, log, fs, loaded, written,
          ppc, p_args, p_locals, audio0, audio, steps, p_out,
          jpc, j_result, j_file, j_read>>

diarVars == <<dpc, audio_len, timestamps, embed_outcome, embeddings, speaker_labels,
              cluster_labels, similarity, diar_return, dlog>>
alignVars == <<heap, heap0, t_ref, d_ref, r_ref, apc>>
transVars == <<tpc, targs, tenv, tcalls, tfail, traw, t_return, tlog>>
mainVars == <<pc, args, args0, env, input_is_file, decodable, exit_status, exit_cause,
              trace, log, fs, loaded, written>>
audioVars == <<ppc, p_args, p_locals, audio0, audio, steps, p_out>>
jsonVars == <<jpc, j_result, j_file, j_read>>

-----------------------------------------------------------------------------
(* Bounds of the model *)

\* audio lengths go up to MaxGrains * 5 s (+ 1 sample)
MaxGrains == 8
\* transcript segments per transcription
MaxSegs == 2
\* transcript times go up to MaxTimeGrains * 5 s
MaxTimeGrains == 5
\* segments in a raw backend result
MaxRawSegs == 2
\* samples of the short waveforms process_audio loads
MaxWave == 3
\* full 1024-sample chunks of a waveform handed to the enhancer
MaxEnhancerChunks == 2

-----------------------------------------------------------------------------
(* Program constants *)

sample_rate == 16000
segment_length == 20
\* "if len(segment) > 5 * sample_rate"
min_segment_seconds == 5
\* similarity_threshold = 0.85, in hundredths
similarity_threshold == 85

DefaultSpeaker == "SPEAKER_00"

\* word.get("probability", 1.0), in hundredths
default_probability == 100

-----------------------------------------------------------------------------
(* Generic helpers *)

Min(a, b) == IF a <= b THEN a ELSE b

Range(s) == { s[i] : i \in DOMAIN s }

\* All orderings of a finite set, as sequences without repetition.
Perms(S) == { p \in [1..Cardinality(S) -> S] : Range(p) = S }

-----------------------------------------------------------------------------
(* Diarizer: pure parts (src/src/diarizer.py) *)

\* The loop of _segment_audio from index i on: range(i, len, step).
RECURSIVE SegmentLoop(_, _, _, _)
SegmentLoop(i, len, segment_samples, step) ==
    IF i >= len THEN << >>
    ELSE LET end_idx == Min(i + segment_samples, len)
             rest    == SegmentLoop(i + step, len, segment_samples, step)
         IN  IF end_idx - i > min_segment_seconds * sample_rate
             THEN << <<i, end_idx>> >> \o rest
             ELSE rest

\* A segmentation that steps by more than a window.
SegmentAudio_Gapped(len, seg_length) ==
    SegmentLoop(0, len, seg_length * sample_rate, (seg_length * sample_rate * 5) \div 4)

\* A segmentation whose windows do not overlap.
SegmentAudio_NoOverlap(len, seg_length) ==
    SegmentLoop(0, len, seg_length * sample_rate, seg_length * sample_rate)

\* _segment_audio: the timestamps list (one (start, end) per kept window).
SegmentAudio(len, seg_length) ==
    LET segment_samples == seg_length * sample_rate
        overlap         == segment_samples \div 4
    IN  SegmentLoop(0, len, segment_samples, segment_samples - overlap)

\* What preprocess_wav / embed_utterance can do with one window.
EmbedOutcomes == {"embedded", "short", "error"}

\* An extraction that skips the windows it could not embed.
ExtractEmbeddings_SkipFailed(outcomes) ==
    [i \in 1..Cardinality({k \in DOMAIN outcomes : outcomes[k] = "embedded"}) |-> "emb"]

\* _extract_embeddings: one embedding per window, zeros for short or failed ones.
ExtractEmbeddings(outcomes) ==
    [i \in DOMAIN outcomes |-> IF outcomes[i] = "embedded" THEN "emb" ELSE "zero"]

\* Warnings _extract_embeddings logs, in order.
RECURSIVE ExtractWarnings(_, _)
ExtractWarnings(outcomes, i) ==
    IF i > Len(outcomes) THEN << >>
    ELSE (IF outcomes[i] = "error" THEN << <<"warning", "embedding failed", i - 1>> >> ELSE << >>)
         \o ExtractWarnings(outcomes, i + 1)

\* Label lists AgglomerativeClustering.fit_predict can return for n embeddings:
\* every cluster 0..k-1 is used.
ClusterLabelings(n) ==
    { l \in [1..n -> 0..(n - 1)] : \E k \in 1..n : Range(l) = 0..(k - 1) }

\* What clustering.fit_predict can do: return a label list, or raise.
FitOutcomes(n) ==
    { [raised |-> FALSE, labels |-> l] : l \in ClusterLabelings(n) }
        \cup { [raised |-> TRUE, labels |-> << >>] }

\* Mutant: the fallback gives every embedding a label of its own.
ClusterSpeakers_FallbackDistinct(n, fit) ==
    IF n <= 1 THEN [i \in 1..n |-> 0]
    ELSE IF fit.raised THEN [i \in 1..n |-> i - 1]
    ELSE fit.labels

\* _cluster_speakers: fit is what the clustering routine did.
ClusterSpeakers(n, fit) ==
    IF n <= 1 THEN [i \in 1..n |-> 0]
    ELSE IF fit.raised THEN [i \in 1..n |-> 0]
    ELSE fit.labels

ClusteringCalled(n) == n > 1

\* Cosine similarities of centroid pairs, in hundredths (a NaN from a zero
\* centroid compares like a value not above the threshold).
SimVals == {similarity_threshold - 10, similarity_threshold, similarity_threshold + 5}

Pairs(S) == { {a, b} : a \in S, b \in S } \ { {a} : a \in S }

SimRelations(S) == [Pairs(S) -> SimVals]

\* The inner loop of _merge_similar_speakers: label2 in unique_labels[i+1:].
RECURSIVE MergeInner(_, _, _, _, _)
MergeInner(u, i, j, sim, mapping) ==
    IF j > Len(u) THEN mapping
    ELSE IF u[j] \in DOMAIN mapping THEN MergeInner(u, i, j + 1, sim, mapping)
    ELSE IF sim[{u[i], u[j]}] > similarity_threshold
         THEN MergeInner(u, i, j + 1, sim, mapping @@ (u[j] :> u[i]))
         ELSE MergeInner(u, i, j + 1, sim, mapping)

\* The outer loop: label1 in unique_labels, skipping labels already merged away.
RECURSIVE MergeOuter(_, _, _, _)
MergeOuter(u, i, sim, mapping) ==
    IF i > Len(u) THEN mapping
    ELSE IF u[i] \in DOMAIN mapping THEN MergeOuter(u, i + 1, sim, mapping)
    ELSE MergeOuter(u, i + 1, sim, MergeInner(u, i, i + 1, sim, mapping))

\* A mapping that sends each label to the nearest earlier label similar to
\* it, whether or not that one was merged away itself.
LabelMapping_Chained(u, sim) ==
    LET Earlier(j) == {i \in 1..(j - 1) : sim[{u[i], u[j]}] > similarity_threshold}
        Index(l) == CHOOSE j \in DOMAIN u : u[j] = l
        Last(S) == CHOOSE x \in S : \A y \in S : y <= x
    IN  [l \in {u[j] : j \in {k \in DOMAIN u : Earlier(k) # {}}} |->
            u[Last(Earlier(Index(l)))]]

\* label_mapping built by _merge_similar_speakers; u is list(set(labels)).
LabelMapping(u, sim) == MergeOuter(u, 1, sim, << >>)

\* A post-processing that merges nothing.
MergeSimilarSpeakers_Never(labels, u, sim) == labels

\* _merge_similar_speakers.
MergeSimilarSpeakers(labels, u, sim) ==
    IF Cardinality(Range(labels)) <= 1 THEN labels
    ELSE LET mapping == LabelMapping(u, sim)
         IN  [k \in DOMAIN labels |->
                 IF labels[k] \in DOMAIN mapping THEN mapping[labels[k]] ELSE labels[k]]

\* f"SPEAKER_{speaker_id:02d}"
SpeakerName(id) ==
    IF id < 10 THEN "SPEAKER_0" \o ToString(id) ELSE "SPEAKER_" \o ToString(id)

\* list.sort(key=start): a stable insertion sort.
RECURSIVE InsertByStart(_, _)
InsertByStart(sorted, x) ==
    IF sorted = << >> THEN << x >>
    ELSE IF sorted[Len(sorted)].start <= x.start THEN Append(sorted, x)
    ELSE Append(InsertByStart(SubSeq(sorted, 1, Len(sorted) - 1), x), sorted[Len(sorted)])

RECURSIVE SortByStartFrom(_, _, _)
SortByStartFrom(segs, i, acc) ==
    IF i > Len(segs) THEN acc
    ELSE SortByStartFrom(segs, i + 1, InsertByStart(acc, segs[i]))

\* Mutant: the sort runs with reverse=True.
SortByStart_Reversed(segs) ==
    LET asc == SortByStartFrom(segs, 1, << >>)
    IN  [i \in DOMAIN asc |-> asc[Len(asc) + 1 - i]]

SortByStart(segs) == SortByStartFrom(segs, 1, << >>)

\* The segment dicts _format_diarization_result builds, before sorting.
LabelledSegments(ts, labels) ==
    [i \in DOMAIN ts |->
        [start   |-> ts[i][1],
         end     |-> ts[i][2],
         speaker |-> IF i <= Len(labels) THEN SpeakerName(labels[i]) ELSE DefaultSpeaker]]

\* _format_diarization_result; spk is the order list(set(...)) happened to give.
FormatDiarizationResult(ts, labels, spk) ==
    [segments |-> SortByStart(LabelledSegments(ts, labels)), speakers |-> spk]

SpeakerSet(ts, labels) == { s.speaker : s \in Range(LabelledSegments(ts, labels)) }

EmptyDiarization == [segments |-> << >>, speakers |-> << >>]

-----------------------------------------------------------------------------
(* Diarizer.diarize as a sequence of steps (src/src/diarizer.py:27-71) *)

\* Lengths of the loaded waveform: multiples of 5 s, and one sample more.
AudioLens ==
    { g * (min_segment_seconds * sample_rate) + d : g \in 0..MaxGrains, d \in 0..1 }

NoJson == jpc = "idle" /\ j_result = << >> /\ j_file = << >> /\ j_read = << >>

NoAudio ==
    /\ ppc = "idle" /\ p_args = << >> /\ p_locals = << >>
    /\ audio0 = << >> /\ audio = << >>
    /\ steps = << >> /\ p_out = "none"

NoMain ==
    /\ pc = "idle"
    /\ args = << >> /\ args0 = << >> /\ env = << >>
    /\ input_is_file = "unknown" /\ decodable = "unknown"
    /\ exit_status = -1 /\ exit_cause = "none"
    /\ trace = << >> /\ log = << >>
    /\ fs = {} /\ loaded = {} /\ written = {}

NoTrans ==
    /\ tpc = "idle"
    /\ targs = << >> /\ tenv = << >>
    /\ tcalls = << >>
    /\ tfail = << >>
    /\ traw = << >>
    /\ t_return = << >>
    /\ tlog = << >>

NoAlign ==
    /\ heap = << >> /\ heap0 = << >>
    /\ t_ref = 0 /\ d_ref = 0 /\ r_ref = 0
    /\ apc = "idle"

InitDiar ==
    /\ dpc = "segment"
    /\ audio_len \in AudioLens
    /\ timestamps = << >>
    /\ embed_outcome = << >>
    /\ embeddings = << >>
    /\ cluster_labels = << >>
    /\ speaker_labels = << >>
    /\ similarity = << >>
    /\ diar_return = "none"
    /\ dlog = << >>
    /\ NoAlign
    /\ NoTrans
    /\ NoMain
    /\ NoAudio /\ NoJson

\* lines 44-48: _segment_audio, and the early return when no window was kept.
DiarSegment ==
    /\ dpc = "segment"
    /\ timestamps' = SegmentAudio(audio_len, segment_length)
    /\ IF Len(timestamps') = 0
       THEN /\ dpc' = "returned"
            /\ diar_return' = EmptyDiarization
            /\ dlog' = Append(dlog, <<"warning", "no segments", 0>>)
       ELSE /\ dpc' = "extract"
            /\ UNCHANGED <<diar_return, dlog>>
    /\ UNCHANGED <<similarity, audio_len, embed_outcome, embeddings, cluster_labels, speaker_labels>>
    /\ UNCHANGED alignVars
    /\ UNCHANGED transVars
    /\ UNCHANGED mainVars
    /\ UNCHANGED <<audioVars, jsonVars>>

\* lines 52-56: _extract_embeddings; the encoder decides each window's outcome.
DiarExtract ==
    /\ dpc = "extract"
    /\ \E outcomes \in [1..Len(timestamps) -> EmbedOutcomes] :
          /\ embed_outcome' = outcomes
          /\ embeddings' = ExtractEmbeddings(outcomes)
          /\ dlog' = dlog \o ExtractWarnings(outcomes, 1)
    /\ IF Len(embeddings') = 0
       THEN /\ dpc' = "returned"
            /\ diar_return' = EmptyDiarization
       ELSE /\ dpc' = "cluster"
            /\ UNCHANGED diar_return
    /\ UNCHANGED <<similarity, audio_len, timestamps, cluster_labels, speaker_labels>>
    /\ UNCHANGED alignVars
    /\ UNCHANGED transVars
    /\ UNCHANGED mainVars
    /\ UNCHANGED <<audioVars, jsonVars>>

\* line 60: _cluster_speakers(embeddings, conservative=True).
DiarCluster ==
    /\ dpc = "cluster"
    /\ \E fit \in FitOutcomes(Len(embeddings)) :
          /\ cluster_labels' = ClusterSpeakers(Len(embeddings), fit)
          /\ dlog' = IF ClusteringCalled(Len(embeddings)) /\ fit.raised
                     THEN Append(dlog, <<"warning", "clustering failed", 0>>)
                     ELSE dlog
    /\ speaker_labels' = cluster_labels'
    /\ dpc' = "merge"
    /\ UNCHANGED <<similarity, audio_len, timestamps, embed_outcome, embeddings, diar_return>>
    /\ UNCHANGED alignVars
    /\ UNCHANGED transVars
    /\ UNCHANGED mainVars
    /\ UNCHANGED <<audioVars, jsonVars>>

\* line 63: _merge_similar_speakers; the order of list(set(labels)) and the
\* centroid similarities come from the environment.
DiarMerge ==
    /\ dpc = "merge"
    /\ \E u \in Perms(Range(cluster_labels)), sim \in SimRelations(Range(cluster_labels)) :
          /\ similarity' = sim
          /\ speaker_labels' = MergeSimilarSpeakers(cluster_labels, u, sim)
    /\ dpc' = "format"
    /\ UNCHANGED <<audio_len, timestamps, embed_outcome, embeddings, cluster_labels,
                   diar_return, dlog>>
    /\ UNCHANGED alignVars
    /\ UNCHANGED transVars
    /\ UNCHANGED mainVars
    /\ UNCHANGED <<audioVars, jsonVars>>

\* lines 66-71: _format_diarization_result and the return.
DiarFormat ==
    /\ dpc = "format"
    /\ \E spk \in Perms(SpeakerSet(timestamps, speaker_labels)) :
          diar_return' = FormatDiarizationResult(timestamps, speaker_labels, spk)
    /\ dpc' = "returned"
    /\ UNCHANGED <<similarity, audio_len, timestamps, embed_outcome, embeddings, cluster_labels,
                   speaker_labels, dlog>>
    /\ UNCHANGED alignVars
    /\ UNCHANGED transVars
    /\ UNCHANGED mainVars
    /\ UNCHANGED <<audioVars, jsonVars>>

NextDiar == DiarSegment \/ DiarExtract \/ DiarCluster \/ DiarMerge \/ DiarFormat

SpecDiar == InitDiar /\ [][NextDiar]_vars

-----------------------------------------------------------------------------
(* Python objects: a heap of dicts.  dict.copy() allocates; d[k] = v writes. *)

\* dict.copy(): a new object with the same items (nested objects are shared).
CopyDict(h, r) == [heap |-> Append(h, h[r]), ref |-> Len(h) + 1]

\* d[key] = val
DictSet(h, r, key, val) == [h EXCEPT ![r] = (key :> val) @@ h[r]]

-----------------------------------------------------------------------------
(* Diarizer.align_with_transcription (src/src/diarizer.py:243-292) *)

\* The loop of _find_speaker_at_time from index i on; twice_ts is 2 * timestamp.
RECURSIVE FindSpeakerFrom(_, _, _)
FindSpeakerFrom(segments, i, twice_ts) ==
    IF i > Len(segments) THEN DefaultSpeaker
    ELSE IF 2 * segments[i].start <= twice_ts /\ twice_ts <= 2 * segments[i].end
         THEN segments[i].speaker
         ELSE FindSpeakerFrom(segments, i + 1, twice_ts)

\* Mutant: the containment test is strict (start < timestamp < end).
RECURSIVE FindSpeakerStrictFrom(_, _, _)
FindSpeakerStrictFrom(segments, i, twice_ts) ==
    IF i > Len(segments) THEN DefaultSpeaker
    ELSE IF 2 * segments[i].start < twice_ts /\ twice_ts < 2 * segments[i].end
         THEN segments[i].speaker
         ELSE FindSpeakerStrictFrom(segments, i + 1, twice_ts)

FindSpeakerAtTime_Strict(diarization_result, twice_ts) ==
    FindSpeakerStrictFrom(diarization_result.segments, 1, twice_ts)

\* Mutant: the loop does not return at the first match, the last match wins.
RECURSIVE FindSpeakerLastFrom(_, _, _, _)
FindSpeakerLastFrom(segments, i, twice_ts, found) ==
    IF i > Len(segments) THEN found
    ELSE IF 2 * segments[i].start <= twice_ts /\ twice_ts <= 2 * segments[i].end
         THEN FindSpeakerLastFrom(segments, i + 1, twice_ts, segments[i].speaker)
         ELSE FindSpeakerLastFrom(segments, i + 1, twice_ts, found)

FindSpeakerAtTime_Last(diarization_result, twice_ts) ==
    FindSpeakerLastFrom(diarization_result.segments, 1, twice_ts, DefaultSpeaker)

\* _find_speaker_at_time
FindSpeakerAtTime(diarization_result, twice_ts) ==
    FindSpeakerFrom(diarization_result.segments, 1, twice_ts)

\* Mutant: aligned_segment = trans_segment, without the copy.
CopySegment_Alias(h, r) == [heap |-> h, ref |-> r]

\* trans_segment.copy()
CopySegment(h, r) == CopyDict(h, r)

\* transcription_result.copy()
CopyResult(h, r) == CopyDict(h, r)

\* The for loop of align_with_transcription over transcription_result["segments"].
RECURSIVE AlignLoop(_, _, _, _, _)
AlignLoop(h, seg_refs, i, d, aligned) ==
    IF i > Len(seg_refs) THEN [heap |-> h, aligned |-> aligned]
    ELSE LET trans_segment == h[seg_refs[i]]
             twice_mid     == trans_segment.start + trans_segment.end
             speaker       == FindSpeakerAtTime(h[d], twice_mid)
             c             == CopySegment(h, seg_refs[i])
             h2            == DictSet(c.heap, c.ref, "speaker", speaker)
         IN  AlignLoop(h2, seg_refs, i + 1, d, Append(aligned, c.ref))

\* align_with_transcription(transcription_result = t, diarization_result = d)
AlignWithTranscription(h, t, d) ==
    LET l  == AlignLoop(h, h[t].segments, 1, d, << >>)
        c  == CopyResult(l.heap, t)
        h2 == DictSet(c.heap, c.ref, "segments", l.aligned)
        h3 == DictSet(h2, c.ref, "speakers", h2[d].speakers)
    IN  [heap |-> h3, ref |-> c.ref]

-----------------------------------------------------------------------------
(* Inputs of the alignment: what diarize and transcribe can hand over *)

\* Every value diarize can return for a waveform of len samples.
DiarizeResults(len) ==
    LET ts == SegmentAudio(len, segment_length)
        n  == Len(ts)
    IN  IF n = 0 THEN {EmptyDiarization}
        ELSE UNION { LET cl == ClusterSpeakers(n, fit)
                     IN  UNION { LET merged == MergeSimilarSpeakers(cl, u, sim)
                                 IN  { FormatDiarizationResult(ts, merged, spk) :
                                          spk \in Perms(SpeakerSet(ts, merged)) } :
                                 u \in Perms(Range(cl)), sim \in SimRelations(Range(cl)) } :
                     fit \in FitOutcomes(n) }

DiarizerResults == UNION { DiarizeResults(len) : len \in AudioLens }

\* Transcript times lie on a 5 s grid.
TimeGrid == { g * (min_segment_seconds * sample_rate) : g \in 0..MaxTimeGrains }

\* (start, end) lists of a transcription: start <= end, segments in time order.
SegmentTimes ==
    UNION { { t \in [1..n -> TimeGrid \X TimeGrid] :
                /\ \A i \in 1..n : t[i][1] <= t[i][2]
                /\ \A i \in 1..(n - 1) : t[i][2] <= t[i + 1][1] } : n \in 0..MaxSegs }

\* The words of a segment: one word spanning it, or none for an empty segment.
WordsFor(start, end) ==
    IF start < end
    THEN << [word |-> <<"w">>, start |-> start, end |-> end, probability |-> 100] >>
    ELSE << >>

\* The objects of a transcription with the given segment times: the result dict
\* at index 1 of the returned list, its segment dicts after it.
TranscriptionObjects(times, base) ==
    << [text |-> <<"t">>, language |-> "en",
        segments |-> [i \in DOMAIN times |-> base + 1 + i]] >>
    \o [i \in DOMAIN times |->
          [id |-> i - 1, start |-> times[i][1], end |-> times[i][2],
           text |-> <<"s">>, words |-> WordsFor(times[i][1], times[i][2])]]

NoDiar ==
    /\ dpc = "idle" /\ audio_len = 0
    /\ timestamps = << >> /\ embed_outcome = << >> /\ embeddings = << >>
    /\ cluster_labels = << >> /\ speaker_labels = << >>
    /\ similarity = << >>
    /\ diar_return = "none" /\ dlog = << >>

\* save_output is about to call align_with_transcription: object 1 is the
\* diarization result, object 2 the transcription result.
InitAlign ==
    /\ NoDiar
    /\ NoTrans
    /\ NoMain
    /\ NoAudio /\ NoJson
    /\ \E d \in DiarizerResults, times \in SegmentTimes :
          heap = << d >> \o TranscriptionObjects(times, 1)
    /\ heap0 = heap
    /\ d_ref = 1 /\ t_ref = 2 /\ r_ref = 0
    /\ apc = "called"

Align ==
    /\ apc = "called"
    /\ LET a == AlignWithTranscription(heap, t_ref, d_ref)
       IN  heap' = a.heap /\ r_ref' = a.ref
    /\ apc' = "returned"
    /\ UNCHANGED <<heap0, t_ref, d_ref>>
    /\ UNCHANGED diarVars
    /\ UNCHANGED transVars
    /\ UNCHANGED mainVars
    /\ UNCHANGED <<audioVars, jsonVars>>

NextAlign == Align

SpecAlign == InitAlign /\ [][NextAlign]_vars

-----------------------------------------------------------------------------
(* Properties of the alignment (checked under SpecAlign) *)

\* The input segment dicts as they were when align was called.
InputSegments == [i \in DOMAIN heap0[t_ref].segments |-> heap0[heap0[t_ref].segments[i]]]

\* The segment dicts of the returned result.
AlignedSegments == [i \in DOMAIN heap[r_ref].segments |-> heap[heap[r_ref].segments[i]]]

\* The speaker intervals align was given.
Intervals == heap0[d_ref].segments

\* The transcript segment [start, end] lies entirely inside the interval.
Inside(seg, interval) == interval.start <= seg.start /\ seg.end <= interval.end

\* The interval contains the segment's midpoint (start + end) / 2.
ContainsMid(interval, seg) ==
    /\ 2 * interval.start <= seg.start + seg.end
    /\ seg.start + seg.end <= 2 * interval.end

\* Indices of the intervals containing the midpoint of seg.
Matching(seg) == { k \in DOMAIN Intervals : ContainsMid(Intervals[k], seg) }

SetMin(S) == CHOOSE x \in S : \A y \in S : x <= y
SetMax(S) == CHOOSE x \in S : \A y \in S : y <= x

C3_Original ==
    apc = "returned" =>
        \A i \in DOMAIN InputSegments :
            /\ Cardinality(Matching(InputSegments[i])) > 1
                  => AlignedSegments[i].speaker
                        = Intervals[SetMax(Matching(InputSegments[i]))].speaker
            /\ Matching(InputSegments[i]) = {}
                  => AlignedSegments[i].speaker = DefaultSpeaker

\* C3 amended: when several intervals contain the midpoint the FIRST matching
\* interval's label is assigned; when none does, the default.
C3_FirstMatchWins ==
    apc = "returned" =>
        \A i \in DOMAIN InputSegments :
            /\ Cardinality(Matching(InputSegments[i])) > 1
                  => AlignedSegments[i].speaker
                        = Intervals[SetMin(Matching(InputSegments[i]))].speaker
            /\ Matching(InputSegments[i]) = {}
                  => AlignedSegments[i].speaker = DefaultSpeaker

\* Two intervals with different labels contain a midpoint; the first one's
\* label was assigned.
C3_Witness ==
    /\ apc = "returned"
    /\ \E i \in DOMAIN InputSegments :
          LET M == Matching(InputSegments[i])
          IN  /\ Cardinality(M) > 1
              /\ Intervals[SetMin(M)].speaker # Intervals[SetMax(M)].speaker
              /\ AlignedSegments[i].speaker = Intervals[SetMin(M)].speaker

SegmentKeys == {"id", "start", "end", "text", "words"}

\* C4: align_with_transcription leaves every input object as it was (no input
\* segment gains a 'speaker' key), and returns a new result with the same
\* segments in the same order, each equal to its input on id, start, end, text
\* and words and differing only by the added 'speaker'; the result differs from
\* the input only by 'segments' and the added 'speakers'.
C4_ReadOnlyJoin ==
    apc = "returned" =>
        /\ \A r \in DOMAIN heap0 : heap[r] = heap0[r]
        /\ r_ref \notin DOMAIN heap0
        /\ \A i \in DOMAIN InputSegments : "speaker" \notin DOMAIN heap[heap0[t_ref].segments[i]]
        /\ Len(AlignedSegments) = Len(InputSegments)
        /\ \A i \in DOMAIN InputSegments :
              /\ DOMAIN AlignedSegments[i] = SegmentKeys \cup {"speaker"}
              /\ \A key \in SegmentKeys : AlignedSegments[i][key] = InputSegments[i][key]
        /\ DOMAIN heap[r_ref] = DOMAIN heap0[t_ref] \cup {"speakers"}
        /\ \A key \in DOMAIN heap0[t_ref] \ {"segments"} : heap[r_ref][key] = heap0[t_ref][key]
        /\ heap[r_ref].speakers = heap0[d_ref].speakers

\* Two segments were aligned against a non-empty interval list.
C4_Witness ==
    /\ apc = "returned"
    /\ Len(InputSegments) = 2
    /\ Intervals # << >>
    /\ AlignedSegments[1].speaker # AlignedSegments[2].speaker

-----------------------------------------------------------------------------
(* Properties of diarize (checked under SpecDiar) *)

\* C5: the 'segments' list diarize returns is sorted by non-decreasing start,
\* has exactly one interval per window of _segment_audio, with that window's
\* (start, end), labelled with the window's cluster label after the merge pass.
C5_SegmentsSortedOnePerWindow ==
    dpc = "returned" =>
        LET segs == diar_return.segments
        IN  /\ \A i \in 1..(Len(segs) - 1) : segs[i].start <= segs[i + 1].start
            /\ Len(segs) = Len(timestamps)
            /\ \A i \in DOMAIN timestamps :
                  /\ segs[i].start = timestamps[i][1]
                  /\ segs[i].end = timestamps[i][2]
                  /\ segs[i].speaker = SpeakerName(speaker_labels[i])

\* diarize returned three windows whose labels the merge pass changed.
C5_Witness ==
    /\ dpc = "returned"
    /\ Len(diar_return.segments) = 3
    /\ speaker_labels # cluster_labels
    /\ diar_return.segments[1].speaker # diar_return.segments[3].speaker

-----------------------------------------------------------------------------
(* Transcriber: result formatting (src/src/transcriber.py:274-337) *)

\* Text is a sequence of characters; str.strip() drops blanks at both ends.
RECURSIVE LStrip(_)
LStrip(t) == IF t # << >> /\ Head(t) = " " THEN LStrip(Tail(t)) ELSE t

RECURSIVE RStrip(_)
RStrip(t) ==
    IF t # << >> /\ t[Len(t)] = " " THEN RStrip(SubSeq(t, 1, Len(t) - 1)) ELSE t

Strip(t) == RStrip(LStrip(t))

\* hasattr(segment, 'words') and segment.words
HasWords(segment) ==
    /\ "words" \in DOMAIN segment
    /\ ~segment.words.none
    /\ segment.words.items # << >>

FormatFasterWord(word) ==
    [word |-> word.word, start |-> word.start, end |-> word.end,
     probability |-> word.probability]

RECURSIVE JoinTexts(_, _)
JoinTexts(segments, i) ==
    IF i > Len(segments) THEN << >> ELSE segments[i].text \o JoinTexts(segments, i + 1)

\* _format_faster_whisper_result
FormatFasterWhisperResult(segments, info) ==
    [text     |-> Strip(JoinTexts(segments, 1)),
     language |-> info.language,
     segments |->
        [i \in DOMAIN segments |->
            [id    |-> i - 1,
             start |-> segments[i].start,
             end   |-> segments[i].end,
             text  |-> Strip(segments[i].text),
             words |-> IF HasWords(segments[i])
                       THEN [j \in DOMAIN segments[i].words.items |->
                                FormatFasterWord(segments[i].words.items[j])]
                       ELSE << >>]]]

\* Mutant: the word dict of the backend is passed through as it is.
FormatStandardWord_PassThrough(word) == word

\* The formatted_word dict of _format_transcription_result.
FormatStandardWord(word) ==
    [word |-> word.word, start |-> word.start, end |-> word.end,
     probability |-> IF "probability" \in DOMAIN word THEN word.probability
                     ELSE default_probability]

\* _format_transcription_result
FormatTranscriptionResult(whisper_result) ==
    [text     |-> whisper_result.text,
     language |-> IF "language" \in DOMAIN whisper_result THEN whisper_result.language
                  ELSE "unknown",
     segments |->
        [i \in DOMAIN whisper_result.segments |->
            LET segment == whisper_result.segments[i]
            IN  [id    |-> segment.id,
                 start |-> segment.start,
                 end   |-> segment.end,
                 text  |-> Strip(segment.text),
                 words |-> IF "words" \in DOMAIN segment
                           THEN [j \in DOMAIN segment.words |->
                                    FormatStandardWord(segment.words[j])]
                           ELSE << >>]]]

-----------------------------------------------------------------------------
(* What the two speech-recognition backends can hand back *)

RawTexts == { <<" ", "a">>, <<"b", " ">> }

RawStart(i) == (i - 1) * (min_segment_seconds * sample_rate)
RawEnd(i) == i * (min_segment_seconds * sample_rate)

\* Faster-Whisper segment objects: attribute 'words' missing, None, [] or one word.
FasterSegments(i) ==
    UNION { LET base == [start |-> RawStart(i), end |-> RawEnd(i), text |-> txt]
                w    == [word |-> txt, start |-> RawStart(i), end |-> RawEnd(i),
                         probability |-> 90]
            IN  { base,
                  ("words" :> [none |-> TRUE, items |-> << >>]) @@ base,
                  ("words" :> [none |-> FALSE, items |-> << >>]) @@ base,
                  ("words" :> [none |-> FALSE, items |-> << w >>]) @@ base } :
            txt \in RawTexts }

\* openai-whisper segment dicts: key 'words' missing, [] or one word, the word
\* with or without 'probability'.
StandardSegments(i) ==
    UNION { LET base == [id |-> i - 1, start |-> RawStart(i), end |-> RawEnd(i), text |-> txt]
                w    == [word |-> txt, start |-> RawStart(i), end |-> RawEnd(i)]
            IN  { base,
                  ("words" :> << >>) @@ base,
                  ("words" :> << w >>) @@ base,
                  ("words" :> << ("probability" :> 90) @@ w >>) @@ base } :
            txt \in RawTexts }

SegmentLists(Variants(_)) ==
    UNION { { l \in [1..n -> UNION { Variants(i) : i \in 1..n }] :
                \A i \in 1..n : l[i] \in Variants(i) } : n \in 0..MaxRawSegs }

\* (segments, info) of model.transcribe of Faster-Whisper.
FasterResults ==
    { [segments |-> l, info |-> [language |-> "en"]] : l \in SegmentLists(FasterSegments) }

\* The dict model.transcribe of openai-whisper returns.
StandardResults ==
    UNION { { [text |-> JoinTexts(l, 1), segments |-> l],
              [text |-> JoinTexts(l, 1), segments |-> l, language |-> "en"] } :
            l \in SegmentLists(StandardSegments) }

-----------------------------------------------------------------------------
(* Transcriber.transcribe and its two backends (src/src/transcriber.py:68-272) *)

ModelSizes == {"base", "large-v3"}

\* language None is the string "None"
Languages == {"None", "en"}

\* line 80
TranscribeDevice(cuda_available) == IF cuda_available THEN "cuda" ELSE "cpu"

\* lines 93-106: the local model directory, else the size with large-v3 and large
\* mapped to large-v2.
ModelPath(model_size, local_exists) ==
    IF local_exists THEN "./models/faster-whisper-" \o model_size
    ELSE IF model_size \in {"large-v3", "large"} THEN "large-v2"
    ELSE model_size

\* The WhisperModel(...) construction and model.transcribe of Faster-Whisper.
FasterCall(a, model_path) ==
    [backend |-> "faster_whisper", audio_path |-> a.audio_path, model |-> model_path,
     language |-> a.language, device |-> a.device]

\* Mutant: the fallback hands on model_path instead of model_size.
StandardCall_ModelPath(a, model_path) ==
    [backend |-> "standard", audio_path |-> a.audio_path, model |-> model_path,
     language |-> a.language, device |-> a.device]

\* self._transcribe_standard_whisper(audio_path, model_size, language, device)
StandardCall(a, model_path) ==
    [backend |-> "standard", audio_path |-> a.audio_path, model |-> a.model_size,
     language |-> a.language, device |-> a.device]

\* Mutant: only a failed model initialization falls back, a failed inference raises.
AfterFasterFailure_InitOnly(stage) == IF stage = "init" THEN "standard" ELSE "raised"

\* Both except blocks of _transcribe_faster_whisper return the standard backend's
\* result.
AfterFasterFailure(stage) == "standard"

InitTrans ==
    /\ NoDiar /\ NoAlign /\ NoMain /\ NoAudio /\ NoJson
    /\ tpc = "called"
    /\ \E m \in ModelSizes, l \in Languages :
          targs = [audio_path |-> "processed.wav", model_size |-> m, language |-> l,
                   device |-> "unset"]
    /\ tenv \in [use_faster_whisper : BOOLEAN, cuda_available : BOOLEAN,
                 local_model : BOOLEAN]
    /\ tcalls = << >>
    /\ tfail = [faster |-> "none", standard |-> "none"]
    /\ traw = << >>
    /\ t_return = << >>
    /\ tlog = << >>

\* lines 80-85: pick the device, dispatch on use_faster_whisper.
TransDispatch ==
    /\ tpc = "called"
    /\ targs' = [targs EXCEPT !.device = TranscribeDevice(tenv.cuda_available)]
    /\ tpc' = IF tenv.use_faster_whisper THEN "faster_init" ELSE "standard"
    /\ UNCHANGED <<tenv, tcalls, tfail, traw, t_return, tlog>>
    /\ UNCHANGED diarVars
    /\ UNCHANGED alignVars
    /\ UNCHANGED mainVars
    /\ UNCHANGED <<audioVars, jsonVars>>

\* lines 89-126: load the Faster-Whisper model; any exception falls back.
TransFasterInit ==
    /\ tpc = "faster_init"
    /\ tcalls' = Append(tcalls, FasterCall(targs, ModelPath(targs.model_size, tenv.local_model)))
    /\ \E ok \in BOOLEAN :
          IF ok
          THEN /\ tpc' = "faster_run"
               /\ UNCHANGED <<tfail, tlog>>
          ELSE /\ tpc' = AfterFasterFailure("init")
               /\ tfail' = [tfail EXCEPT !.faster = "init"]
               /\ tlog' = tlog \o << <<"error", "Faster-Whisper failed">>,
                                     <<"info", "Falling back to standard Whisper">> >>
    /\ UNCHANGED <<targs, tenv, traw, t_return>>
    /\ UNCHANGED diarVars
    /\ UNCHANGED alignVars
    /\ UNCHANGED mainVars
    /\ UNCHANGED <<audioVars, jsonVars>>

\* lines 128-222: run the inference and format; any exception falls back.
TransFasterRun ==
    /\ tpc = "faster_run"
    /\ \/ \E raw \in FasterResults :
             /\ traw' = [backend |-> "faster_whisper", value |-> raw]
             /\ t_return' = FormatFasterWhisperResult(raw.segments, raw.info)
             /\ tpc' = "returned"
             /\ UNCHANGED <<tfail, tlog>>
       \/ /\ tpc' = AfterFasterFailure("inference")
          /\ tfail' = [tfail EXCEPT !.faster = "inference"]
          /\ tlog' = tlog \o << <<"error", "Faster-Whisper transcription failed">>,
                                <<"info", "Falling back to standard Whisper">> >>
          /\ UNCHANGED <<traw, t_return>>
    /\ UNCHANGED <<targs, tenv, tcalls>>
    /\ UNCHANGED diarVars
    /\ UNCHANGED alignVars
    /\ UNCHANGED mainVars
    /\ UNCHANGED <<audioVars, jsonVars>>

\* lines 224-272: the reference backend; its exceptions are not caught.
TransStandard ==
    /\ tpc = "standard"
    /\ tcalls' = Append(tcalls, StandardCall(targs, ModelPath(targs.model_size, tenv.local_model)))
    /\ \/ \E raw \in StandardResults :
             /\ traw' = [backend |-> "standard", value |-> raw]
             /\ t_return' = FormatTranscriptionResult(raw)
             /\ tpc' = "returned"
             /\ UNCHANGED tfail
       \/ /\ tpc' = "raised"
          /\ tfail' = [tfail EXCEPT !.standard = "failed"]
          /\ UNCHANGED <<traw, t_return>>
    /\ UNCHANGED <<targs, tenv, tlog>>
    /\ UNCHANGED diarVars
    /\ UNCHANGED alignVars
    /\ UNCHANGED mainVars
    /\ UNCHANGED <<audioVars, jsonVars>>

NextTrans == TransDispatch \/ TransFasterInit \/ TransFasterRun \/ TransStandard

SpecTrans == InitTrans /\ [][NextTrans]_vars

-----------------------------------------------------------------------------
(* Properties of transcribe (checked under SpecTrans) *)

CallsOf(backend) == { i \in DOMAIN tcalls : tcalls[i].backend = backend }

\* C6: once the Faster-Whisper backend has failed (at model initialization or at
\* inference), transcribe goes to the reference backend, called with the same
\* audio, model size and language, and returns what that backend produced; each
\* backend is invoked at most once per call, and a failure of the reference
\* backend is not retried but raised to the caller.
C6_FallbackToReference ==
    /\ Cardinality(CallsOf("faster_whisper")) <= 1
    /\ Cardinality(CallsOf("standard")) <= 1
    /\ \A i \in CallsOf("standard") :
          /\ tcalls[i].audio_path = targs.audio_path
          /\ tcalls[i].model = targs.model_size
          /\ tcalls[i].language = targs.language
    /\ tfail.faster # "none" =>
          /\ tenv.use_faster_whisper
          /\ tpc \in {"standard", "returned", "raised"}
          /\ tpc # "standard" => Cardinality(CallsOf("standard")) = 1
          /\ tpc = "returned" =>
                /\ traw.backend = "standard"
                /\ t_return = FormatTranscriptionResult(traw.value)
    /\ tfail.standard # "none" =>
          /\ tpc = "raised"
          /\ Cardinality(CallsOf("standard")) = 1
    /\ tpc = "raised" => tfail.standard # "none"

\* The inference of Faster-Whisper failed for large-v3 (loaded as large-v2) and
\* the reference backend answered.
C6_Witness ==
    /\ tpc = "returned"
    /\ tfail.faster = "inference"
    /\ targs.model_size = "large-v3"
    /\ tcalls[1].model = "large-v2"
    /\ traw.backend = "standard"
    /\ Len(t_return.segments) > 0

\* The backend supplied no word-level data for raw segment i.
NoWordData(i) ==
    LET segment == traw.value.segments[i]
    IN  IF traw.backend = "faster_whisper"
        THEN \/ "words" \notin DOMAIN segment
             \/ segment.words.none
             \/ segment.words.items = << >>
        ELSE \/ "words" \notin DOMAIN segment
             \/ segment.words = << >>

WordKeys == {"word", "start", "end", "probability"}

\* C7: whatever backend answered, the value transcribe returns has exactly the
\* keys text, language, segments; every segment has id, start, end, text and a
\* words list whose entries have word, start, end, probability; and words is
\* empty exactly when the backend supplied no word-level data for the segment.
C7_UnifiedShape ==
    tpc = "returned" =>
        /\ DOMAIN t_return = {"text", "language", "segments"}
        /\ Len(t_return.segments) = Len(traw.value.segments)
        /\ \A i \in DOMAIN t_return.segments :
              /\ DOMAIN t_return.segments[i] = SegmentKeys
              /\ \A j \in DOMAIN t_return.segments[i].words :
                    DOMAIN t_return.segments[i].words[j] = WordKeys
              /\ t_return.segments[i].words = << >> <=> NoWordData(i)

\* The reference backend answered after a fallback, with a word that carried no
\* probability and a segment without words.
C7_Witness ==
    /\ tpc = "returned"
    /\ tfail.faster # "none"
    /\ Len(t_return.segments) = 2
    /\ "words" \in DOMAIN traw.value.segments[1]
    /\ traw.value.segments[1].words # << >>
    /\ "probability" \notin DOMAIN traw.value.segments[1].words[1]
    /\ t_return.segments[1].words[1].probability = default_probability
    /\ t_return.segments[2].words = << >>

-----------------------------------------------------------------------------
(* Paths: directory, stem and suffix of pathlib.Path *)

\* Suffixes of the -o value: none, recognised, unrecognised, upper case.
Suffixes == {"", ".json", ".wav", ".TXT"}

Formats == {"json", "txt", "md"}

\* str.lower() on the suffixes above
Lower(suffix) == IF suffix = ".TXT" THEN ".txt" ELSE suffix

\* Path.with_suffix
WithSuffix(path, suffix) == [path EXCEPT !.suffix = suffix]

\* str(path)
PathStr(path) == path.dir \o "/" \o path.stem \o path.suffix

\* main.py:62-67: the path main goes on with.
MainOutPath(out_raw, format) ==
    IF out_raw.suffix # "" THEN out_raw ELSE WithSuffix(out_raw, "." \o format)

\* A save_output that writes every path as it was given.
SaveOutputFile_AsGiven(out, format_type) == out

\* output_formatter.py:38-42: the path save_output writes.
SaveOutputFile(out, format_type) ==
    IF Lower(out.suffix) \in {".json", ".txt", ".md"} THEN out
    ELSE WithSuffix(out, "." \o format_type)

-----------------------------------------------------------------------------
(* main (src/main.py:46-203) *)

Devices == {"auto", "cpu", "cuda"}

\* torch cannot be imported, or can and reports CUDA or no CUDA.
TorchStates == {"unusable", "cpu_only", "cuda"}

\* sys.exit(status) / the end of main
Exit(status, cause) ==
    /\ pc' = "exited"
    /\ exit_status' = status
    /\ exit_cause' = cause

\* "except Exception as e: logger.error(...); sys.exit(1)" (lines 201-203);
\* logged is the log up to the exception.
Crash(cause, logged) ==
    /\ Exit(1, cause)
    /\ log' = Append(logged, <<"error", "Error during transcription">>)

Running == exit_status' = exit_status /\ exit_cause' = exit_cause

InitMain ==
    /\ NoDiar /\ NoTrans /\ NoAlign /\ NoAudio /\ NoJson
    /\ pc = "preflight_input"
    /\ \E d \in BOOLEAN, y \in BOOLEAN, dev \in Devices, f \in Formats, sfx \in Suffixes :
          args = [diarize |-> d, assume_yes |-> y, device |-> dev, format |-> f,
                  output |-> [dir |-> "out", stem |-> "result", suffix |-> sfx]]
    /\ args0 = args
    /\ env \in { e \in [torch : TorchStates, DIARIZER_AVAILABLE : BOOLEAN] :
                   e.DIARIZER_AVAILABLE => e.torch # "unusable" }
    /\ input_is_file = "unknown" /\ decodable = "unknown"
    /\ exit_status = -1 /\ exit_cause = "none"
    /\ trace = << >> /\ log = << >>
    /\ fs = {} /\ loaded = {} /\ written = {}

\* Mutant: the input path is not checked.
InputCheckPasses_Always(is_file) == TRUE

\* line 57: input_path.is_file()
InputCheckPasses(is_file) == is_file

\* lines 55-59
PreflightInput ==
    /\ pc = "preflight_input"
    /\ \E is_file \in BOOLEAN :
          /\ input_is_file' = IF is_file THEN "yes" ELSE "no"
          /\ IF InputCheckPasses(is_file)
             THEN /\ pc' = "preflight_output" /\ Running
                  /\ UNCHANGED log
             ELSE /\ Exit(2, "input not found")
                  /\ log' = Append(log, <<"error", "Input file not found">>)
    /\ UNCHANGED <<args, args0, env, decodable, trace, fs, loaded, written>>
    /\ UNCHANGED <<diarVars, transVars, alignVars, audioVars, jsonVars>>

\* lines 61-79: the output path and its directory.
PreflightOutput ==
    /\ pc = "preflight_output"
    /\ \E dir_exists \in BOOLEAN, create_output_dir \in BOOLEAN :
          LET out_path == MainOutPath(args.output, args.format)
          IN  IF dir_exists
              THEN /\ args' = [args EXCEPT !.output = out_path]
                   /\ pc' = "preflight_device" /\ Running
                   /\ UNCHANGED <<log, fs>>
              ELSE IF create_output_dir \/ args.assume_yes
              THEN /\ args' = [args EXCEPT !.output = out_path]
                   /\ fs' = fs \cup {out_path.dir}
                   /\ log' = Append(log, <<"info", "Created output directory">>)
                   /\ pc' = "preflight_device" /\ Running
              ELSE /\ Exit(2, "output directory missing")
                   /\ log' = Append(log, <<"error", "Output directory does not exist">>)
                   /\ UNCHANGED <<args, fs>>
    /\ UNCHANGED <<args0, env, input_is_file, decodable, trace, loaded, written>>
    /\ UNCHANGED <<diarVars, transVars, alignVars, audioVars, jsonVars>>

\* lines 81-107: resolve --device.
PreflightDevice ==
    /\ pc = "preflight_device"
    /\ IF args.device = "auto"
       THEN /\ args' = [args EXCEPT !.device = IF env.torch = "cuda" THEN "cuda" ELSE "cpu"]
            /\ log' = Append(log, <<"info", "Using device">>)
            /\ pc' = "preflight_diarization" /\ Running
       ELSE IF args.device = "cuda" /\ env.torch # "cuda"
       THEN IF args.assume_yes
            THEN /\ args' = [args EXCEPT !.device = "cpu"]
                 /\ log' = Append(log, <<"warning", "CUDA requested but not usable">>)
                 /\ pc' = "preflight_diarization" /\ Running
            ELSE /\ Exit(2, "cuda unavailable")
                 /\ log' = Append(log, <<"error", "CUDA requested but not usable">>)
                 /\ UNCHANGED args
       ELSE /\ pc' = "preflight_diarization" /\ Running
            /\ UNCHANGED <<args, log>>
    /\ UNCHANGED <<args0, env, input_is_file, decodable, trace, fs, loaded, written>>
    /\ UNCHANGED <<diarVars, transVars, alignVars, audioVars, jsonVars>>

\* Mutant: a missing diarization package always ends the run.
MissingDiarizationProceeds_Never(assume_yes) == FALSE

\* lines 113 and 125: "if args.assume_yes"
MissingDiarizationProceeds(assume_yes) == assume_yes

\* lines 109-118: diarization requested but src.diarizer could not be imported.
PreflightDiarization ==
    /\ pc = "preflight_diarization"
    /\ IF args.diarize /\ ~env.DIARIZER_AVAILABLE
       THEN IF MissingDiarizationProceeds(args.assume_yes)
            THEN /\ args' = [args EXCEPT !.diarize = FALSE]
                 /\ log' = Append(log, <<"warning", "Speaker diarization requested but packages missing">>)
                 /\ pc' = "model_manager" /\ Running
            ELSE /\ Exit(2, "diarization unavailable")
                 /\ log' = Append(log, <<"error", "Speaker diarization requested but packages missing">>)
                 /\ UNCHANGED args
       ELSE /\ pc' = "model_manager" /\ Running
            /\ UNCHANGED <<args, log>>
    /\ UNCHANGED <<args0, env, input_is_file, decodable, trace, fs, loaded, written>>
    /\ UNCHANGED <<diarVars, transVars, alignVars, audioVars, jsonVars>>

\* model_manager.py:26-30
ManagerDevice(torch) == IF torch = "cuda" THEN "cuda" ELSE "cpu"

\* lines 120-130: ModelManager(logger), then its own availability check.  A
\* Diarizer that imported implies resemblyzer is installed, so the check can
\* only see "unavailable" when args.diarize is already off.
InitModelManager ==
    /\ pc = "model_manager"
    /\ fs' = fs \cup {"models"}
    /\ \E mm_available \in BOOLEAN :
          /\ env.DIARIZER_AVAILABLE => mm_available
          /\ IF args.diarize /\ ~mm_available
             THEN IF MissingDiarizationProceeds(args.assume_yes)
                  THEN /\ args' = [args EXCEPT !.diarize = FALSE]
                       /\ log' = log \o << <<"info", "Using device">>,
                                           <<"warning", "Speaker diarization requested but not available">> >>
                       /\ pc' = "download" /\ Running
                  ELSE /\ Exit(2, "diarization unavailable")
                       /\ log' = log \o << <<"info", "Using device">>,
                                           <<"error", "Speaker diarization requested but not available">> >>
                       /\ UNCHANGED args
             ELSE /\ pc' = "download" /\ Running
                  /\ log' = Append(log, <<"info", "Using device">>)
                  /\ UNCHANGED args
    /\ UNCHANGED <<args0, env, input_is_file, decodable, trace, loaded, written>>
    /\ UNCHANGED <<diarVars, transVars, alignVars, audioVars, jsonVars>>

\* lines 132-141: --download-models; download_whisper_model re-raises a failure,
\* download_diarization_model catches its own.
DownloadModels ==
    /\ pc = "download"
    /\ \E download_models \in BOOLEAN, ok \in BOOLEAN :
          IF ~download_models
          THEN /\ ok
               /\ pc' = "components" /\ Running
               /\ UNCHANGED <<log, loaded>>
          ELSE IF ok
          THEN /\ loaded' = loaded \cup {[model |-> "whisper", device |-> ManagerDevice(env.torch),
                                          by |-> "download"]}
               /\ log' = Append(log, <<"info", "Downloading required models">>)
               /\ pc' = "components" /\ Running
          ELSE /\ Crash("whisper model download failed", log)
               /\ UNCHANGED loaded
    /\ UNCHANGED <<args, args0, env, input_is_file, decodable, trace, fs, written>>
    /\ UNCHANGED <<diarVars, transVars, alignVars, audioVars, jsonVars>>

\* lines 143-148: AudioProcessor makes its temporary directory; src.transcriber
\* imports torch at module level.
InitComponents ==
    /\ pc = "components"
    /\ fs' = fs \cup {"tmp"}
    /\ IF env.torch = "unusable"
       THEN /\ Crash("import torch failed", log)
       ELSE /\ pc' = "process_audio" /\ Running
            /\ UNCHANGED log
    /\ UNCHANGED <<args, args0, env, input_is_file, decodable, trace, loaded, written>>
    /\ UNCHANGED <<diarVars, transVars, alignVars, audioVars, jsonVars>>

\* Lengths (at 16 kHz) of the processed audio in a run of main: 5 s and 25 s.
MainAudioLens ==
    { min_segment_seconds * sample_rate, 5 * min_segment_seconds * sample_rate }

\* Segment times of the transcription in a run of main.
MainSegmentTimes ==
    { << >>,
      << <<0, min_segment_seconds * sample_rate>>,
         <<3 * min_segment_seconds * sample_rate, 5 * min_segment_seconds * sample_rate>> >> }

\* Mutant: the failure of librosa.load is logged and swallowed.
LoadFailureReraised_No == FALSE

\* audio_processor.py:45-47: "except Exception as e: ...error(...); raise"
LoadFailureReraised == TRUE

\* lines 150-155 with AudioProcessor.process_audio (audio_processor.py:22-61):
\* librosa.load fails (logged, re-raised), or a later step of process_audio
\* raises, or the processed file is written and its path returned.
ProcessAudio ==
    /\ pc = "process_audio"
    /\ \E can_load \in BOOLEAN, later_ok \in BOOLEAN :
          /\ decodable' = IF can_load THEN "yes" ELSE "no"
          /\ can_load \/ later_ok
          /\ IF ~can_load /\ LoadFailureReraised
             THEN /\ trace' = Append(trace, <<"process_audio", "raised">>)
                  /\ Crash("audio not decodable",
                           Append(log, <<"error", "Failed to load audio file">>))
                  /\ UNCHANGED <<audio_len, fs>>
             ELSE IF can_load /\ ~later_ok
             THEN /\ trace' = Append(trace, <<"process_audio", "raised">>)
                  /\ Crash("audio processing failed", log)
                  /\ UNCHANGED <<audio_len, fs>>
             ELSE \E len \in MainAudioLens :
                     /\ audio_len' = len
                     /\ fs' = fs \cup {"tmp/processed.wav"}
                     /\ trace' = Append(trace, <<"process_audio", "returned">>)
                     /\ log' = IF can_load
                               THEN Append(log, <<"info", "Processed audio saved">>)
                               ELSE log \o << <<"error", "Failed to load audio file">>,
                                              <<"info", "Processed audio saved">> >>
                     /\ pc' = "transcribe" /\ Running
    /\ UNCHANGED <<args, args0, env, input_is_file, loaded, written>>
    /\ UNCHANGED <<dpc, timestamps, embed_outcome, embeddings, speaker_labels,
                   cluster_labels, similarity, diar_return, dlog>>
    /\ UNCHANGED <<transVars, alignVars, audioVars, jsonVars>>

\* lines 157-163: transcriber.transcribe returns a result dict or raises.
Transcribe ==
    /\ pc = "transcribe"
    /\ \/ \E times \in MainSegmentTimes :
             /\ heap' = TranscriptionObjects(times, 0)
             /\ t_ref' = 1
             /\ loaded' = loaded \cup {[model |-> "whisper",
                                        device |-> TranscribeDevice(env.torch = "cuda"),
                                        by |-> "transcribe"]}
             /\ trace' = Append(trace, <<"transcribe", "returned">>)
             /\ pc' = "diarize" /\ Running
             /\ UNCHANGED log
       \/ /\ trace' = Append(trace, <<"transcribe", "raised">>)
          /\ Crash("transcription failed", log)
          /\ UNCHANGED <<heap, t_ref, loaded>>
    /\ UNCHANGED <<args, args0, env, input_is_file, decodable, fs, written>>
    /\ UNCHANGED <<heap0, d_ref, r_ref, apc>>
    /\ UNCHANGED <<diarVars, transVars, audioVars, jsonVars>>

\* Mutant: the diarizer runs whenever it could be imported.
ShouldDiarize_IfAvailable(diarize, available) == available

\* line 167: "if args.diarize and DIARIZER_AVAILABLE"
ShouldDiarize(diarize, available) == diarize /\ available

\* Mutant: the exception of diarize is not caught.
DiarizeExceptionCaught_No == FALSE

\* lines 170-174: try: diarize(...) except Exception: log and go on
DiarizeExceptionCaught == TRUE

\* lines 165-174: the optional diarization; diarization_result stays None (0)
\* when it is skipped or fails.
Diarize ==
    /\ pc = "diarize"
    /\ IF ShouldDiarize(args.diarize, env.DIARIZER_AVAILABLE)
       THEN \/ \E d \in DiarizeResults(audio_len) :
                  /\ heap' = Append(heap, d)
                  /\ d_ref' = Len(heap) + 1
                  /\ trace' = Append(trace, <<"diarize", "returned">>)
                  /\ log' = Append(log, <<"info", "Performing speaker diarization">>)
                  /\ pc' = "save" /\ Running
            \/ /\ trace' = Append(trace, <<"diarize", "raised">>)
               /\ UNCHANGED <<heap, d_ref>>
               /\ IF DiarizeExceptionCaught
                  THEN /\ log' = log \o << <<"info", "Performing speaker diarization">>,
                                           <<"error", "Diarization failed">>,
                                           <<"info", "Continuing with transcription only">> >>
                       /\ pc' = "save" /\ Running
                  ELSE Crash("diarization failed",
                             Append(log, <<"info", "Performing speaker diarization">>))
       ELSE /\ pc' = "save" /\ Running
            /\ UNCHANGED <<heap, d_ref, trace, log>>
    /\ UNCHANGED <<args, args0, env, input_is_file, decodable, fs, loaded, written>>
    /\ UNCHANGED <<heap0, t_ref, r_ref, apc>>
    /\ UNCHANGED <<diarVars, transVars, audioVars, jsonVars>>

\* lines 176-183 with OutputFormatter.save_output (output_formatter.py:16-55):
\* align when there is a diarization result, pick the file, write it.
SaveOutput ==
    /\ pc = "save"
    /\ heap0' = heap
    /\ IF d_ref # 0
       THEN LET a == AlignWithTranscription(heap, t_ref, d_ref)
            IN  heap' = a.heap /\ r_ref' = a.ref
       ELSE heap' = heap /\ r_ref' = t_ref
    /\ LET output_file == SaveOutputFile(args.output, args.format)
       IN  \/ /\ written' = written \cup {[path |-> PathStr(output_file),
                                          serialization |-> args.format,
                                          data |-> r_ref']}
              /\ fs' = fs \cup {PathStr(output_file)}
              /\ trace' = Append(trace, <<"save_output", "returned">>)
              /\ log' = log \o << <<"info", "Saving output">>, <<"info", "Output saved">> >>
              /\ pc' = "verify" /\ Running
           \/ /\ trace' = Append(trace, <<"save_output", "raised">>)
              /\ Crash("writing the output failed", Append(log, <<"info", "Saving output">>))
              /\ UNCHANGED <<written, fs>>
    /\ UNCHANGED <<args, args0, env, input_is_file, decodable, loaded>>
    /\ UNCHANGED <<t_ref, d_ref, apc>>
    /\ UNCHANGED <<diarVars, transVars, audioVars, jsonVars>>

\* lines 185-199: the post-save check of Path(args.output); stale says a file
\* of that name was there before the run.
Verify ==
    /\ pc = "verify"
    /\ \E stale \in BOOLEAN :
          /\ PathStr(args.output) \in fs => ~stale
          /\ IF PathStr(args.output) \in fs \/ stale
             THEN /\ Exit(0, "success")
                  /\ log' = log \o << <<"info", "FINAL_OUTPUT">>,
                                      <<"info", "Transcription completed successfully">> >>
             ELSE /\ Exit(2, "output not found")
                  /\ log' = Append(log, <<"error", "Expected output not found">>)
    /\ UNCHANGED <<args, args0, env, input_is_file, decodable, trace, fs, loaded, written>>
    /\ UNCHANGED <<diarVars, transVars, alignVars, audioVars, jsonVars>>

Next ==
    \/ PreflightInput \/ PreflightOutput \/ PreflightDevice \/ PreflightDiarization
    \/ InitModelManager \/ DownloadModels \/ InitComponents
    \/ ProcessAudio \/ Transcribe \/ Diarize \/ SaveOutput \/ Verify

Init == InitMain

Spec == Init /\ [][Next]_vars

-----------------------------------------------------------------------------
(* Properties of main *)

LogHas(level, message) == \E i \in DOMAIN log : log[i] = <<level, message>>

\* The stage was called in this run (trace records each call with its outcome).
Called(stage) == \E i \in DOMAIN trace : trace[i][1] = stage

Returned(stage) == \E i \in DOMAIN trace : trace[i] = <<stage, "returned">>

StageRank(stage) ==
    CASE stage = "process_audio" -> 1
      [] stage = "transcribe"    -> 2
      [] stage = "diarize"       -> 3
      [] stage = "save_output"   -> 4

\* C1: in every run of main the stage calls happen in the order process_audio,
\* transcribe, diarize, save_output, each at most once; a stage is called only
\* after the call before it has ended, transcribe and save_output only after
\* the stages they depend on have returned; diarize is called only when
\* diarization is still enabled, and is not skipped when it is.
C1_StagesInOrder ==
    /\ \A i, j \in DOMAIN trace : i < j => StageRank(trace[i][1]) < StageRank(trace[j][1])
    /\ \A i \in DOMAIN trace :
          i < Len(trace) => trace[i][2] = "returned" \/ trace[i] = <<"diarize", "raised">>
    /\ Called("transcribe") => Returned("process_audio")
    /\ Called("diarize") => Returned("transcribe")
    /\ Called("save_output") => Returned("transcribe")
    /\ Called("diarize") => args.diarize /\ env.DIARIZER_AVAILABLE
    /\ Called("save_output") /\ args.diarize => Called("diarize")

\* A complete run with all four stages.
C1_Witness ==
    /\ pc = "exited" /\ exit_status = 0
    /\ trace = << <<"process_audio", "returned">>, <<"transcribe", "returned">>,
                  <<"diarize", "returned">>, <<"save_output", "returned">> >>

\* The run got as far as the check of lines 109-118.
PastDiarizationCheck ==
    /\ pc \notin {"preflight_input", "preflight_output", "preflight_device",
                  "preflight_diarization"}
    /\ exit_cause \notin {"input not found", "output directory missing", "cuda unavailable"}

\* Diarization was requested and src.diarizer could not be imported.
DiarizationMissing == args0.diarize /\ ~env.DIARIZER_AVAILABLE

MissingMessage == "Speaker diarization requested but packages missing"

\* C8 as stated: when diarization is requested but its packages are missing,
\* the feature is disabled with a logged warning and the run is not aborted.
C8_Original ==
    DiarizationMissing /\ PastDiarizationCheck =>
        /\ LogHas("warning", MissingMessage)
        /\ ~args.diarize
        /\ exit_cause # "diarization unavailable"

\* C8: when diarization is requested but its packages are missing, then with -y
\* the feature is disabled with a logged warning, diarize is never called, the
\* run is not ended by the check, and a run that no other failure stops has
\* transcribed and written the output file; without -y the run logs an error and
\* exits with status 2 before any stage is called.
C8_ProceedsOnlyWithYes ==
    DiarizationMissing /\ PastDiarizationCheck =>
        IF args0.assume_yes
        THEN /\ LogHas("warning", MissingMessage)
             /\ ~args.diarize
             /\ exit_cause # "diarization unavailable"
             /\ ~Called("diarize")
             /\ pc = "exited" /\ exit_cause \in {"success", "output not found"} =>
                    /\ Returned("transcribe") /\ Returned("save_output")
                    /\ \E w \in written : w.data = t_ref
        ELSE /\ pc = "exited" /\ exit_status = 2
             /\ exit_cause = "diarization unavailable"
             /\ LogHas("error", MissingMessage)
             /\ trace = << >> /\ written = {}

\* With -y a run without the diarization packages ends well, the file written.
C8_Witness ==
    /\ DiarizationMissing /\ args0.assume_yes
    /\ LogHas("warning", MissingMessage)
    /\ pc = "exited" /\ exit_status = 0
    /\ Returned("transcribe") /\ written # {}

DiarizeRaised == \E i \in DOMAIN trace : trace[i] = <<"diarize", "raised">>

\* C9: if diarize raises, main logs the error and goes on with no diarization
\* result; save_output is called next, with the transcription result itself,
\* and what it writes is that result, no segment carrying a speaker; the run
\* never exits because of the diarization error.
C9_DiarizeFailureTolerated ==
    DiarizeRaised =>
        /\ LogHas("error", "Diarization failed")
        /\ d_ref = 0
        /\ pc \in {"save", "verify", "exited"}
        /\ pc # "save" => Called("save_output") /\ r_ref = t_ref
        /\ Returned("save_output") => written # {}
        /\ \A w \in written :
              /\ w.data = t_ref
              /\ "speakers" \notin DOMAIN heap[w.data]
              /\ \A i \in DOMAIN heap[w.data].segments :
                    "speaker" \notin DOMAIN heap[heap[w.data].segments[i]]
        /\ exit_cause \in {"none", "success", "output not found", "writing the output failed"}
        /\ exit_status = 1 => exit_cause = "writing the output failed"

\* diarize raised and the run still ended with the transcription written.
C9_Witness ==
    /\ DiarizeRaised
    /\ pc = "exited" /\ exit_status = 0
    /\ \E w \in written : w.data = t_ref /\ heap[t_ref].segments # << >>

\* C10: if the input path is not an existing file, main exits with status 2 and
\* by then no stage has been called, no model loaded, and no file or directory
\* created.
C10_MissingInputExitsFirst ==
    input_is_file = "no" =>
        /\ pc = "exited" /\ exit_status = 2
        /\ exit_cause = "input not found"
        /\ trace = << >> /\ loaded = {} /\ fs = {} /\ written = {}

\* The input path was checked and is not a file.
C10_Witness ==
    /\ input_is_file = "no"
    /\ pc = "exited" /\ exit_status = 2
    /\ LogHas("error", "Input file not found")

\* librosa.load raised on the input file.
LoadFailed == decodable = "no"

\* C11: if the input audio cannot be decoded, process_audio logs the error and
\* re-raises with the intermediate file unwritten, and main exits with status
\* 1; transcribe, diarize and save_output are never called and nothing is
\* written.
C11_UndecodableInputIsFatal ==
    LoadFailed =>
        /\ LogHas("error", "Failed to load audio file")
        /\ "tmp/processed.wav" \notin fs
        /\ trace = << <<"process_audio", "raised">> >>
        /\ pc = "exited" /\ exit_status = 1
        /\ exit_cause = "audio not decodable"
        /\ LogHas("error", "Error during transcription")
        /\ heap = << >> /\ \A l \in loaded : l.by = "download"
        /\ written = {}

\* The decoder refused the input and the run ended with status 1.
C11_Witness ==
    /\ LoadFailed
    /\ input_is_file = "yes"
    /\ pc = "exited" /\ exit_status = 1
    /\ trace = << <<"process_audio", "raised">> >>

-----------------------------------------------------------------------------
(* Properties of the diarizer's clustering *)

\* clustering.fit_predict raised in this call of diarize.
ClusteringFailed == \E i \in DOMAIN dlog : dlog[i] = <<"warning", "clustering failed", 0>>

\* C12: if the clustering routine fails, _cluster_speakers does not raise but
\* returns one label per embedding, all 0; the merge pass leaves them alone, and
\* diarize returns one interval per window, each labelled SPEAKER_00, with
\* 'speakers' exactly [SPEAKER_00].
C12_ClusteringFailureSingleSpeaker ==
    ClusteringFailed =>
        /\ dpc \in {"merge", "format", "returned"}
        /\ Len(embeddings) > 0
        /\ Len(cluster_labels) = Len(embeddings)
        /\ \A i \in DOMAIN cluster_labels : cluster_labels[i] = 0
        /\ dpc \in {"format", "returned"} => speaker_labels = cluster_labels
        /\ dpc = "returned" =>
              /\ Len(diar_return.segments) = Len(timestamps)
              /\ \A i \in DOMAIN diar_return.segments :
                    diar_return.segments[i].speaker = "SPEAKER_00"
              /\ diar_return.speakers = << "SPEAKER_00" >>

\* Clustering failed on three embeddings and diarize returned.
C12_Witness ==
    /\ ClusteringFailed
    /\ dpc = "returned"
    /\ Len(embeddings) = 3
    /\ Len(diar_return.segments) = 3

-----------------------------------------------------------------------------
(* Waveforms: samples in thousandths of full scale *)

Abs(x) == IF x < 0 THEN -x ELSE x

\* n / d rounded to the nearest integer (d > 0), as one rounded float operation
\* on the thousandths grid.
RoundDiv(n, d) ==
    IF n >= 0 THEN (2 * n + d) \div (2 * d) ELSE -((2 * (-n) + d) \div (2 * d))

-----------------------------------------------------------------------------
(* AudioEnhancer.enhance_audio (src/src/audio_enhancer.py:18-71).  A waveform *)
(* is kept as its length, its sample rate and its peak magnitude: the stages *)
(* work chunk by chunk, and what a chunk's filter does depends on its length. *)

Presets == {"default", "meeting", "podcast", "phone"}

\* noise_level in hundredths
NoiseLevels == {-10, 0, 50, 90}

min_chunk == 1024

\* filtfilt pads 3 * max(len(a), len(b)) samples on each side and refuses an
\* input that is not longer: 15 for butter(4, high), 27 for butter(4, band).
highpass_padlen == 15
bandpass_padlen == 27

voice_high_cutoff == 4000

\* Lengths of the last chunk that the waveforms below end with.
Tails == {0, 6, 20, 100}

\* Waveform lengths: one to MaxEnhancerChunks chunks of 1024 samples and a tail;
\* two of 10 s at 16 kHz, for which the chunk size is len // 100.
EnhancerLens ==
    { k * min_chunk + t : k \in 1..MaxEnhancerChunks, t \in Tails } \cup {160000, 160010}

SampleRates == {8000, 16000}

EnhancerPeaks == {0, 400, 1000}

\* max(1024, len(audio) // 100)
ChunkSize(len) == IF len \div 100 > min_chunk THEN len \div 100 ELSE min_chunk

\* Lengths of the chunks "for i in range(0, len(audio), chunk_size)" cuts.
ChunkLens(len) ==
    (IF len >= ChunkSize(len) THEN {ChunkSize(len)} ELSE {})
        \cup (IF len % ChunkSize(len) > 0 THEN {len % ChunkSize(len)} ELSE {})

\* _reduce_noise: np.fft.fft of the noise sample audio[:min(int(0.5 * sr),
\* len(audio) // 4)] raises when that sample is empty.
NoiseReductionRaises(a) == a.len \div 4 = 0

\* _remove_reverb: filtfilt of the order-4 high-pass raises on a chunk of at
\* most 15 samples.
DereverbRaises(a) == \E c \in ChunkLens(a.len) : c <= highpass_padlen

\* _isolate_voice: butter needs the 4 kHz band edge below Nyquist, filtfilt of
\* the band-pass raises on a chunk of at most 27 samples.
VoiceIsolationRaises(a) ==
    a.len > 0 /\ (2 * voice_high_cutoff >= a.sr
                    \/ \E c \in ChunkLens(a.len) : c <= bandpass_padlen)

\* A stage returns a waveform of the same length; its peak is the filter's
\* (spectral subtraction returns zeros where no full window fits).
FilterResults(a) == { a, [a EXCEPT !.peak = a.peak \div 2], [a EXCEPT !.peak = 0] }

\* get_enhancement_info: the preset table, an unknown preset reads "default".
GetEnhancementInfo(preset) ==
    CASE preset = "meeting" -> [noise_reduction |-> 70, dereverb |-> TRUE, voice_isolation |-> TRUE]
      [] preset = "podcast" -> [noise_reduction |-> 40, dereverb |-> FALSE, voice_isolation |-> TRUE]
      [] preset = "phone"   -> [noise_reduction |-> 80, dereverb |-> TRUE, voice_isolation |-> TRUE]
      [] OTHER              -> [noise_reduction |-> 50, dereverb |-> TRUE, voice_isolation |-> TRUE]

\* lines 36-47: the if/elif chain that rebinds noise_level, dereverb and
\* voice_isolation; no branch for "default".
PresetSettings(a) ==
    CASE a.preset = "meeting" -> [noise_level |-> 70, dereverb |-> TRUE, voice_isolation |-> TRUE]
      [] a.preset = "podcast" -> [noise_level |-> 40, dereverb |-> FALSE, voice_isolation |-> TRUE]
      [] a.preset = "phone"   -> [noise_level |-> 80, dereverb |-> TRUE, voice_isolation |-> TRUE]
      [] OTHER -> [noise_level |-> a.noise_level, dereverb |-> a.dereverb,
                   voice_isolation |-> a.voice_isolation]

\* AudioEnhancer._normalize_audio: audio * (0.9 / peak), two rounded operations.
EnhancerNormalize(a) ==
    IF a.peak > 0
    THEN LET gain == RoundDiv(900 * 1000, a.peak)
         IN  [a EXCEPT !.peak = RoundDiv(a.peak * gain, 1000)]
    ELSE a

InitEnhance ==
    /\ NoDiar /\ NoAlign /\ NoTrans /\ NoMain /\ NoJson
    /\ ppc = "called"
    /\ p_args \in [preset : Presets \cup {"studio"}, noise_level : NoiseLevels,
                   dereverb : BOOLEAN, voice_isolation : BOOLEAN]
    /\ p_locals = << >>
    /\ audio0 \in { w \in [len : EnhancerLens, sr : SampleRates, peak : EnhancerPeaks] :
                      w.len = 0 => w.peak = 0 }
    /\ audio = audio0
    /\ steps = << >>
    /\ p_out = "none"

\* One stage of enhance_audio: skipped when disabled, else run on the current
\* waveform; an exception of the stage ends the call.
EnhanceStage(enabled, raises, step, next) ==
    /\ IF enabled
       THEN /\ steps' = Append(steps, step)
            /\ IF raises
               THEN ppc' = "raised" /\ UNCHANGED audio
               ELSE ppc' = next /\ audio' \in FilterResults(audio)
       ELSE ppc' = next /\ UNCHANGED <<audio, steps>>
    /\ UNCHANGED <<p_args, p_locals, audio0, p_out>>
    /\ UNCHANGED <<diarVars, alignVars, transVars, mainVars, jsonVars>>

\* lines 33-49: the preset settings and the copy of audio.
EnhancePreset ==
    /\ ppc = "called"
    /\ p_locals' = PresetSettings(p_args)
    /\ ppc' = "noise_reduction"
    /\ UNCHANGED <<p_args, audio0, audio, steps, p_out>>
    /\ UNCHANGED <<diarVars, alignVars, transVars, mainVars, jsonVars>>

\* lines 51-54
EnhanceNoise ==
    /\ ppc = "noise_reduction"
    /\ EnhanceStage(p_locals.noise_level > 0, NoiseReductionRaises(audio),
                    [stage |-> "noise_reduction", level |-> p_locals.noise_level],
                    "dereverb")

\* lines 56-59
EnhanceDereverb ==
    /\ ppc = "dereverb"
    /\ EnhanceStage(p_locals.dereverb, DereverbRaises(audio),
                    [stage |-> "dereverb"], "voice_isolation")

\* lines 61-64
EnhanceVoice ==
    /\ ppc = "voice_isolation"
    /\ EnhanceStage(p_locals.voice_isolation, VoiceIsolationRaises(audio),
                    [stage |-> "voice_isolation"], "normalize")

\* lines 66-71: np.max of an empty array raises.
EnhanceNormalize ==
    /\ ppc = "normalize"
    /\ steps' = Append(steps, [stage |-> "normalize"])
    /\ IF audio.len = 0
       THEN ppc' = "raised" /\ UNCHANGED <<audio, p_out>>
       ELSE /\ audio' = EnhancerNormalize(audio)
            /\ p_out' = audio'
            /\ ppc' = "returned"
    /\ UNCHANGED <<p_args, p_locals, audio0>>
    /\ UNCHANGED <<diarVars, alignVars, transVars, mainVars, jsonVars>>

NextEnhance ==
    EnhancePreset \/ EnhanceNoise \/ EnhanceDereverb \/ EnhanceVoice \/ EnhanceNormalize

SpecEnhance == InitEnhance /\ [][NextEnhance]_vars

-----------------------------------------------------------------------------
(* Properties of enhance_audio *)

StageRun(name) == \E i \in DOMAIN steps : steps[i].stage = name

\* C13 as stated: for every preset of the table and whatever noise_level,
\* dereverb and voice_isolation the caller passed, the settings enhance_audio
\* applies are the table entry of the preset: noise reduction runs with the
\* entry's level, dereverberation and voice isolation run exactly when the
\* entry says so.
C13_Original ==
    ppc = "returned" /\ p_args.preset \in Presets =>
        LET info == GetEnhancementInfo(p_args.preset)
        IN  /\ \E i \in DOMAIN steps :
                  steps[i] = [stage |-> "noise_reduction", level |-> info.noise_reduction]
            /\ StageRun("dereverb") <=> info.dereverb
            /\ StageRun("voice_isolation") <=> info.voice_isolation

EnhanceRank(name) ==
    CASE name = "noise_reduction" -> 1
      [] name = "dereverb"        -> 2
      [] name = "voice_isolation" -> 3
      [] name = "normalize"       -> 4

\* The call of enhance_audio has ended, by return or by exception.
EnhanceEnded == ppc \in {"returned", "raised"}

\* C14 as stated: the stages run in the order noise reduction, dereverberation,
\* voice isolation, normalization; a disabled stage is skipped, the others
\* keeping their order; normalization is executed on every call and is last.
C14_Original ==
    ppc \notin {"idle", "called"} =>
        /\ \A i, j \in DOMAIN steps :
              i < j => EnhanceRank(steps[i].stage) < EnhanceRank(steps[j].stage)
        /\ StageRun("noise_reduction") => p_locals.noise_level > 0
        /\ StageRun("dereverb") => p_locals.dereverb
        /\ StageRun("voice_isolation") => p_locals.voice_isolation
        /\ EnhanceEnded =>
              /\ steps # << >>
              /\ steps[Len(steps)].stage = "normalize"

-----------------------------------------------------------------------------
(* AudioProcessor.process_audio (src/src/audio_processor.py:22-118) on        *)
(* waveforms given sample by sample                                           *)

\* Sample values: full scale, loud, below the trim threshold, zero.
Samples == {-1000, -3, 0, 5, 400}

trim_threshold == 10

ceiling == 950

\* filtfilt with butter(1, ...) pads 3 * 2 samples on each side.
clean_padlen == 6

ShortWaves(n) == UNION { [1..k -> Samples] : k \in 0..n }

\* Seven samples with silence inside.
Filler == <<400, 0, -400, 5, 400, 0, 400>>

\* What librosa.load can return: short waveforms, and longer ones with any
\* sample before and after the filler.
Waves ==
    ShortWaves(MaxWave) \cup { s \o Filler \o t : s \in ShortWaves(1), t \in ShortWaves(1) }

\* np.max(np.abs(audio)) of a non-empty waveform
Peak(a) == CHOOSE m \in { Abs(a[i]) : i \in DOMAIN a } : \A i \in DOMAIN a : Abs(a[i]) <= m

\* non_silent = np.abs(audio) > threshold
NonSilent(a) == { i \in DOMAIN a : Abs(a[i]) > trim_threshold }

\* _trim_silence: the slice from the first to the last non-silent sample, the
\* waveform itself when there is none.
TrimSilence(a) ==
    IF NonSilent(a) = {} THEN a
    ELSE LET start_idx == CHOOSE i \in NonSilent(a) : \A j \in NonSilent(a) : i <= j
             end_idx   == CHOOSE i \in NonSilent(a) : \A j \in NonSilent(a) : j <= i
         IN  SubSeq(a, start_idx, end_idx)

\* wiener and filtfilt return a waveform of the length of their input.
Filtered(a) == { a, [i \in DOMAIN a |-> a[i] \div 2], [i \in DOMAIN a |-> 0] }

\* Mutant: the waveform is scaled to full scale.
NormalizeAudio_FullScale(a) ==
    IF Peak(a) > 0 THEN [i \in DOMAIN a |-> RoundDiv(a[i] * 1000, Peak(a))] ELSE a

\* _normalize_audio: audio / max_val * 0.95 when max_val > 0, two rounded
\* operations per sample.
NormalizeAudio(a) ==
    IF Peak(a) > 0
    THEN [i \in DOMAIN a |-> RoundDiv(RoundDiv(a[i] * 1000, Peak(a)) * ceiling, 1000)]
    ELSE a

InitProcess ==
    /\ NoDiar /\ NoAlign /\ NoTrans /\ NoMain /\ NoJson
    /\ ppc = "called"
    /\ p_args \in [clean_audio : BOOLEAN]
    /\ p_locals = << >>
    /\ audio0 = << >> /\ audio = << >>
    /\ steps = << >>
    /\ p_out = "none"

\* lines 41-47: librosa.load(sr=None, mono=True), or its exception re-raised.
ProcLoad ==
    /\ ppc = "called"
    /\ \/ \E w \in Waves :
             /\ audio0' = w /\ audio' = w
             /\ steps' = Append(steps, "load")
             /\ ppc' = "clean"
       \/ /\ ppc' = "raised"
          /\ UNCHANGED <<audio0, audio, steps>>
    /\ UNCHANGED <<p_args, p_locals, p_out>>
    /\ UNCHANGED <<diarVars, alignVars, transVars, mainVars, jsonVars>>

\* Mutant: the silence is trimmed on every call.
CleaningRequested_Always(clean_audio) == TRUE

\* line 50: "if clean_audio:"
CleaningRequested(clean_audio) == clean_audio

\* lines 49-52 with _clean_audio (63-83): trim, Wiener filter, high-pass filter;
\* filtfilt raises on a waveform of at most 6 samples.
ProcClean ==
    /\ ppc = "clean"
    /\ IF CleaningRequested(p_args.clean_audio)
       THEN LET trimmed == TrimSilence(audio)
            IN  \E w \in Filtered(trimmed) :
                   IF Len(w) <= clean_padlen
                   THEN /\ steps' = steps \o <<"trim", "wiener", "high_pass">>
                        /\ ppc' = "raised"
                        /\ p_locals' = [trimmed |-> trimmed]
                        /\ UNCHANGED audio
                   ELSE \E h \in Filtered(w) :
                           /\ steps' = steps \o <<"trim", "wiener", "high_pass">>
                           /\ audio' = h
                           /\ p_locals' = [trimmed |-> trimmed]
                           /\ ppc' = "normalize"
       ELSE /\ ppc' = "normalize"
            /\ UNCHANGED <<audio, steps, p_locals>>
    /\ UNCHANGED <<p_args, audio0, p_out>>
    /\ UNCHANGED <<diarVars, alignVars, transVars, mainVars, jsonVars>>

\* lines 54-55: _normalize_audio; np.max of an empty array raises.
ProcNormalize ==
    /\ ppc = "normalize"
    /\ steps' = Append(steps, "normalize")
    /\ IF audio = << >>
       THEN ppc' = "raised" /\ UNCHANGED <<audio, p_locals>>
       ELSE /\ audio' = NormalizeAudio(audio)
            /\ p_locals' = [normalize_in |-> audio] @@ p_locals
            /\ ppc' = "write"
    /\ UNCHANGED <<p_args, audio0, p_out>>
    /\ UNCHANGED <<diarVars, alignVars, transVars, mainVars, jsonVars>>

\* lines 57-61: sf.write of the waveform, then the return of the path.
ProcWrite ==
    /\ ppc = "write"
    /\ \/ /\ p_out' = audio
          /\ steps' = Append(steps, "write")
          /\ ppc' = "returned"
       \/ /\ ppc' = "raised"
          /\ UNCHANGED <<p_out, steps>>
    /\ UNCHANGED <<p_args, p_locals, audio0, audio>>
    /\ UNCHANGED <<diarVars, alignVars, transVars, mainVars, jsonVars>>

NextProcess == ProcLoad \/ ProcClean \/ ProcNormalize \/ ProcWrite

SpecProcess == InitProcess /\ [][NextProcess]_vars

-----------------------------------------------------------------------------
(* Properties of process_audio *)

\* _normalize_audio has returned in this call.
Normalized == "normalize_in" \in DOMAIN p_locals

\* C15: after _normalize_audio the waveform has the length it had and no sample
\* has magnitude above the 0.95 ceiling; a waveform with a non-zero peak has
\* its peak exactly at the ceiling; an all-zero waveform is returned unchanged.
\* The call raises only on a waveform without samples.
C15_NormalizeToCeiling ==
    /\ Normalized =>
          LET before == p_locals.normalize_in
          IN  /\ Len(audio) = Len(before)
              /\ \A i \in DOMAIN audio : Abs(audio[i]) <= ceiling
              /\ Peak(before) > 0 => Peak(audio) = ceiling
              /\ Peak(before) = 0 => audio = before
    /\ ppc = "raised" /\ ~Normalized /\ steps # << >> /\ steps[Len(steps)] = "normalize" =>
          audio = << >>

\* A waveform with peak 0.4 and a quiet sample was scaled up to the ceiling; an
\* all-zero one is a separate case the formula covers.
C15_Witness ==
    /\ Normalized
    /\ Peak(p_locals.normalize_in) = 400
    /\ Peak(audio) = ceiling
    /\ \E i \in DOMAIN audio : 0 < Abs(audio[i]) /\ Abs(audio[i]) < ceiling

ExpectedSteps(clean_audio) ==
    IF clean_audio THEN <<"load", "trim", "wiener", "high_pass", "normalize", "write">>
    ELSE <<"load", "normalize", "write">>

IsPrefix(a, b) == Len(a) <= Len(b) /\ SubSeq(b, 1, Len(a)) = a

-----------------------------------------------------------------------------
(* OutputFormatter._save_json: the result is wrapped with metadata and written
   by json.dump(indent=2, ensure_ascii=False); a reader gets it back with
   json.load.  Python values are tagged trees; a str is a sequence of text
   pieces in which the characters JSON escapes are pieces of their own; a
   float is a count of FloatScale-ths.  The file is the sequence of JSON
   tokens of its text (the indentation between tokens carries nothing). *)

MaxJsonSegs == 2

FloatScale == 10000

PyStr(s) == [type |-> "str", v |-> s]
PyInt(n) == [type |-> "int", v |-> n]
PyFloat(n) == [type |-> "float", v |-> n]
PyBool(b) == [type |-> "bool", v |-> b]
PyList(items) == [type |-> "list", v |-> items]
PyDict(items) == [type |-> "dict", v |-> items]

\* A dictionary key written as a str of one piece.
K(name) == <<name>>

HasKey(d, name) == \E i \in 1..Len(d.v) : d.v[i][1] = K(name)

Get(d, name) == d.v[CHOOSE i \in 1..Len(d.v) : d.v[i][1] = K(name)][2]

DigitChar(d) == <<"0", "1", "2", "3", "4", "5", "6", "7", "8", "9">>[d + 1]

DigitVal(c) == CHOOSE d \in 0..9 : DigitChar(d) = c

RECURSIVE IntRepr(_)
IntRepr(n) ==
    IF n < 10 THEN <<DigitChar(n)>>
    ELSE IntRepr(n \div 10) \o <<DigitChar(n % 10)>>

RECURSIVE StripZeros(_)
StripZeros(ds) ==
    IF Len(ds) > 1 /\ ds[Len(ds)] = "0"
    THEN StripZeros(SubSeq(ds, 1, Len(ds) - 1))
    ELSE ds

\* The digits after the point kept by a repr that wrote only two of them.
FractionDigits_TwoPlaces(frac) ==
    StripZeros(<<DigitChar(frac \div 1000), DigitChar((frac \div 100) % 10)>>)

\* float.__repr__: the shortest digits that read back as the same float.
FractionDigits(frac) ==
    StripZeros(<<DigitChar(frac \div 1000), DigitChar((frac \div 100) % 10),
                 DigitChar((frac \div 10) % 10), DigitChar(frac % 10)>>)

FloatRepr(x) ==
    IntRepr(x \div FloatScale) \o <<".">> \o FractionDigits(x % FloatScale)

RECURSIVE ParseDigits(_)
ParseDigits(ds) ==
    IF ds = << >> THEN 0
    ELSE ParseDigits(SubSeq(ds, 1, Len(ds) - 1)) * 10 + DigitVal(ds[Len(ds)])

RECURSIVE Pow10(_)
Pow10(n) == IF n = 0 THEN 1 ELSE 10 * Pow10(n - 1)

\* JSON numbers: digits without a point give an int, with a point a float.
ParseNumber(cs) ==
    IF \E i \in 1..Len(cs) : cs[i] = "."
    THEN LET dot == CHOOSE i \in 1..Len(cs) : cs[i] = "."
             whole == SubSeq(cs, 1, dot - 1)
             frac == SubSeq(cs, dot + 1, Len(cs))
         IN PyFloat(ParseDigits(whole) * FloatScale
                    + (ParseDigits(frac) * FloatScale) \div Pow10(Len(frac)))
    ELSE PyInt(ParseDigits(cs))

\* An escaping that leaves the backslash alone.
EscapePiece_QuotesOnly(c) ==
    IF c = "\"" THEN <<"\\", "\"">>
    ELSE IF c = "\n" THEN <<"\\", "n">>
    ELSE <<c>>

\* json.encoder.py_encode_basestring: quote, backslash and control characters
\* are escaped, everything else (ensure_ascii=False) is written as it is.
EscapePiece(c) ==
    IF c = "\"" THEN <<"\\", "\"">>
    ELSE IF c = "\\" THEN <<"\\", "\\">>
    ELSE IF c = "\n" THEN <<"\\", "n">>
    ELSE <<c>>

RECURSIVE Escape(_)
Escape(str) ==
    IF str = << >> THEN << >> ELSE EscapePiece(Head(str)) \o Escape(Tail(str))

RECURSIVE Unescape(_)
Unescape(cs) ==
    IF cs = << >> THEN << >>
    ELSE IF Head(cs) = "\\" /\ Len(cs) >= 2
    THEN <<IF cs[2] = "n" THEN "\n" ELSE cs[2]>> \o Unescape(Tail(Tail(cs)))
    ELSE <<Head(cs)>> \o Unescape(Tail(cs))

Punct(c) == [k |-> "punct", v |-> c]

IsPunct(t, c) == t.k = "punct" /\ t.v = c

RECURSIVE Dump(_), DumpItems(_), DumpMembers(_)
\* json.dump: the tokens of the text written for a value; a dict's members
\* come in insertion order.
Dump(x) ==
    CASE x.type = "str" -> <<[k |-> "str", v |-> Escape(x.v)]>>
      [] x.type = "int" -> <<[k |-> "num", v |-> IntRepr(x.v)]>>
      [] x.type = "float" -> <<[k |-> "num", v |-> FloatRepr(x.v)]>>
      [] x.type = "bool" -> <<[k |-> "lit", v |-> IF x.v THEN "true" ELSE "false"]>>
      [] x.type = "list" -> <<Punct("[")>> \o DumpItems(x.v) \o <<Punct("]")>>
      [] x.type = "dict" -> <<Punct("{")>> \o DumpMembers(x.v) \o <<Punct("}")>>

DumpItems(items) ==
    IF items = << >> THEN << >>
    ELSE Dump(Head(items))
         \o (IF Len(items) > 1 THEN <<Punct(",")>> \o DumpItems(Tail(items))
             ELSE << >>)

DumpMembers(items) ==
    IF items = << >> THEN << >>
    ELSE <<[k |-> "str", v |-> Escape(Head(items)[1])], Punct(":")>>
         \o Dump(Head(items)[2])
         \o (IF Len(items) > 1 THEN <<Punct(",")>> \o DumpMembers(Tail(items))
             ELSE << >>)

RECURSIVE ParseValue(_, _), ParseItems(_, _, _), ParseMembers(_, _, _)
\* json.load: the value that starts at token i, and the index after it.
ParseValue(toks, i) ==
    LET t == toks[i] IN
    CASE t.k = "str" -> [v |-> PyStr(Unescape(t.v)), next |-> i + 1]
      [] t.k = "num" -> [v |-> ParseNumber(t.v), next |-> i + 1]
      [] t.k = "lit" -> [v |-> PyBool(t.v = "true"), next |-> i + 1]
      [] t.k = "punct" ->
            IF t.v = "[" THEN ParseItems(toks, i + 1, << >>)
            ELSE ParseMembers(toks, i + 1, << >>)

ParseItems(toks, i, acc) ==
    IF IsPunct(toks[i], "]") THEN [v |-> PyList(acc), next |-> i + 1]
    ELSE IF IsPunct(toks[i], ",") THEN ParseItems(toks, i + 1, acc)
    ELSE LET r == ParseValue(toks, i)
         IN ParseItems(toks, r.next, Append(acc, r.v))

ParseMembers(toks, i, acc) ==
    IF IsPunct(toks[i], "}") THEN [v |-> PyDict(acc), next |-> i + 1]
    ELSE IF IsPunct(toks[i], ",") THEN ParseMembers(toks, i + 1, acc)
    ELSE LET r == ParseValue(toks, i + 2)
         IN ParseMembers(toks, r.next,
                         Append(acc, <<Unescape(toks[i].v), r.v>>))

Load(toks) == ParseValue(toks, 1).v

\* Texts: plain, with a quote, with a backslash before an n, with a newline
\* and a character outside ASCII.
JsonTexts == {<<"hello">>, <<"say ", "\"", "x", "\\", "n", "\n", "é">>}

JsonTimes == {0, 12500, 30625}

JsonProbabilities == {8731, 10000}

JsonWord(p) ==
    PyDict(<< <<K("word"), PyStr(<<" hi">>)>>,
              <<K("start"), PyFloat(12500)>>,
              <<K("end"), PyFloat(12813)>>,
              <<K("probability"), PyFloat(p)>> >>)

JsonWordLists ==
    {<< >>} \cup {<<JsonWord(p)>> : p \in JsonProbabilities}
            \cup {<<JsonWord(8731), JsonWord(10000)>>}

\* A segment as _transcribe_faster_whisper and _format_whisper_result build
\* it; align_with_transcription adds "speaker" to a copy.
JsonSegment(id, t, text, words, with_speaker) ==
    PyDict(<< <<K("id"), PyInt(id)>>,
              <<K("start"), PyFloat(t)>>,
              <<K("end"), PyFloat(t + 20001)>>,
              <<K("text"), PyStr(text)>>,
              <<K("words"), PyList(words)>> >>
           \o (IF with_speaker THEN << <<K("speaker"), PyStr(<<"SPEAKER_00">>)>> >>
               ELSE << >>))

JsonSegmentLists(with_speaker) ==
    UNION {{[i \in 1..n |-> JsonSegment(i - 1, c[i][1], c[i][2], c[i][3], with_speaker)] :
                c \in [1..n -> {<<t, x, w>> :
                                    t \in (IF n = 1 THEN JsonTimes ELSE {12500}),
                                    x \in JsonTexts, w \in JsonWordLists}]} :
           n \in 0..MaxJsonSegs}

JsonResult(segs, with_speaker) ==
    PyDict(<< <<K("text"), PyStr(<<"hello">>)>>,
              <<K("language"), PyStr(<<"en">>)>>,
              <<K("segments"), PyList(segs)>> >>
           \o (IF with_speaker
               THEN << <<K("speakers"), PyList(<<PyStr(<<"SPEAKER_00">>)>>)>> >>
               ELSE << >>))

JsonResults ==
    UNION {{JsonResult(segs, with_speaker) : segs \in JsonSegmentLists(with_speaker)} :
           with_speaker \in BOOLEAN}

InitJson ==
    /\ jpc = "called"
    /\ j_result \in JsonResults
    /\ j_file = << >>
    /\ j_read = << >>
    /\ NoDiar /\ NoAlign /\ NoTrans /\ NoMain /\ NoAudio

\* _save_json
SaveJson ==
    /\ jpc = "called"
    /\ \E now \in {<<"2024-01-01T00:00:00">>} :
        LET output_data ==
              PyDict(<< <<K("metadata"),
                          PyDict(<< <<K("created_at"), PyStr(now)>>,
                                    <<K("language"),
                                      IF HasKey(j_result, "language")
                                      THEN Get(j_result, "language")
                                      ELSE PyStr(<<"unknown">>)>>,
                                    <<K("has_speakers"),
                                      PyBool(HasKey(j_result, "speakers"))>>,
                                    <<K("total_segments"),
                                      PyInt(Len(Get(j_result, "segments").v))>> >>)>>,
                        <<K("transcription"), j_result>> >>)
        IN j_file' = Dump(output_data)
    /\ jpc' = "saved"
    /\ UNCHANGED <<j_result, j_read>>
    /\ UNCHANGED <<diarVars, alignVars, transVars, mainVars, audioVars>>

\* A reader opens the file as UTF-8 and calls json.load.
ReadJson ==
    /\ jpc = "saved"
    /\ j_read' = Load(j_file)
    /\ jpc' = "read"
    /\ UNCHANGED <<j_result, j_file>>
    /\ UNCHANGED <<diarVars, alignVars, transVars, mainVars, audioVars>>

NextJson == SaveJson \/ ReadJson

SpecJson == InitJson /\ [][NextJson]_vars

-----------------------------------------------------------------------------
(* Properties of the JSON file *)

SegmentsOf(result) == Get(result, "segments").v

SameWord(a, b) ==
    /\ Get(a, "word") = Get(b, "word")
    /\ Get(a, "start") = Get(b, "start")
    /\ Get(a, "end") = Get(b, "end")
    /\ Get(a, "probability") = Get(b, "probability")

SameSegment(a, b) ==
    /\ Get(a, "start") = Get(b, "start")
    /\ Get(a, "end") = Get(b, "end")
    /\ Get(a, "text") = Get(b, "text")
    /\ Len(Get(a, "words").v) = Len(Get(b, "words").v)
    /\ \A i \in 1..Len(Get(a, "words").v) :
          SameWord(Get(a, "words").v[i], Get(b, "words").v[i])

\* C17: for every result, with or without speaker labels, the file written by
\* _save_json reads back with, under "transcription", a segment list of the
\* same length and order whose segments have the original start, end, text
\* and words (word, start, end, probability).
C17_JsonRoundTrip ==
    jpc = "read" =>
        /\ HasKey(j_read, "transcription")
        /\ LET before == SegmentsOf(j_result)
               after == SegmentsOf(Get(j_read, "transcription"))
           IN /\ Len(after) = Len(before)
              /\ \A i \in 1..Len(before) : SameSegment(before[i], after[i])

\* A result with speaker labels, two segments, words and a text with a quote,
\* a backslash and a newline has been written and read back.
C17_Witness ==
    /\ jpc = "read"
    /\ HasKey(j_result, "speakers")
    /\ Len(SegmentsOf(j_result)) = 2
    /\ Get(SegmentsOf(j_result)[1], "text").v \in JsonTexts \ {<<"hello">>}
    /\ Len(Get(SegmentsOf(j_result)[2], "words").v) = 2
    /\ HasKey(SegmentsOf(j_result)[2], "speaker")

-----------------------------------------------------------------------------
(* Properties of save_output in main *)

\* The path ends in one of the extensions save_output recognizes; the code
\* compares the lower-cased suffix, so "result.TXT" ends in a recognized one.
EndsInRecognized(path) == Lower(path.suffix) \in {".json", ".txt", ".md"}

\* The extension that names a serialization (_save_json, _save_txt,
\* _save_markdown).
SerializationSuffix(serialization) ==
    CASE serialization = "json" -> ".json"
      [] serialization = "txt" -> ".txt"
      [] serialization = "md" -> ".md"

-----------------------------------------------------------------------------
(* Properties of diarize on a 30-second waveform *)

ThirtySeconds == 30 * sample_rate

\* _cluster_speakers gave the two windows different labels.
ClusteredApart ==
    Len(cluster_labels) = 2 /\ cluster_labels[1] # cluster_labels[2]

\* The similarity of the centroids of the two windows.
CentroidSimilarity == similarity[{cluster_labels[1], cluster_labels[2]}]

\* The speaker labels of the returned result.
ResultLabels == {s.speaker : s \in Range(diar_return.segments)}

\* C19: a 30-second waveform is split into exactly two windows; when the two
\* windows are clustered apart, the result has exactly two speaker labels if
\* the centroid similarity does not exceed the merge threshold and exactly
\* one if it is above the threshold.
C19_ThirtySecondsTwoWindows ==
    audio_len = ThirtySeconds =>
        /\ dpc # "segment" => Len(timestamps) = 2
        /\ (dpc = "returned" /\ ClusteredApart) =>
              /\ Range(diar_return.speakers) = ResultLabels
              /\ Len(diar_return.speakers) = Cardinality(ResultLabels)
              /\ IF CentroidSimilarity > similarity_threshold
                 THEN Cardinality(ResultLabels) = 1
                 ELSE Cardinality(ResultLabels) = 2

\* The two windows of a 30-second waveform were clustered apart and merged.
C19_Witness ==
    /\ audio_len = ThirtySeconds
    /\ dpc = "returned"
    /\ timestamps = << <<0, 20 * sample_rate>>, <<15 * sample_rate, ThirtySeconds>> >>
    /\ ClusteredApart
    /\ CentroidSimilarity > similarity_threshold
    /\ Cardinality(ResultLabels) = 1

-----------------------------------------------------------------------------
(* Properties of the device in main *)

\* C20: the speech-recognition model is loaded and run on the device selected
\* by --device after pre-flight resolution: with --device cpu never on CUDA,
\* and with auto or cuda on the resolved args.device, by Transcriber and by
\* ModelManager alike.
C20_DeviceFollowsFlag ==
    \A l \in loaded : l.device = args.device

-----------------------------------------------------------------------------
(* Properties of the temporary directory in main *)

\* C21: every run of main that constructed an AudioProcessor has removed the
\* instance's temporary directory, and the intermediate file in it, by the
\* time the process terminates, on success and on error paths alike.
C21_TempDirRemovedAtExit ==
    pc = "exited" => "tmp" \notin fs /\ "tmp/processed.wav" \notin fs

-----------------------------------------------------------------------------
(* Properties of _merge_similar_speakers inside diarize *)

\* _merge_similar_speakers has returned in this call of diarize.
MergeDone == dpc = "format" \/ (dpc = "returned" /\ Len(speaker_labels) > 0)

\* C22: any two pre-merge clusters whose centroid similarity is above the
\* threshold carry the same label in the output of _merge_similar_speakers.
C22_SimilarPairsMerged ==
    MergeDone =>
        \A i, j \in DOMAIN cluster_labels :
            (/\ cluster_labels[i] # cluster_labels[j]
             /\ similarity[{cluster_labels[i], cluster_labels[j]}] > similarity_threshold)
                => speaker_labels[i] = speaker_labels[j]

-----------------------------------------------------------------------------
(* Properties of _extract_embeddings inside diarize *)

\* C23: for every list of windows and every pattern of per-window outcomes,
\* _extract_embeddings returns one embedding per window in window order, a
\* zero vector for each too-short or failed window; the label list has one
\* label per window, and diarize goes on to return one interval per window.
C23_OneEmbeddingPerWindow ==
    (dpc \in {"cluster", "merge", "format", "returned"} /\ Len(timestamps) > 0) =>
        /\ Len(embeddings) = Len(timestamps)
        /\ \A i \in DOMAIN embeddings :
              embeddings[i] = "zero" <=> embed_outcome[i] \in {"short", "error"}
        /\ dpc # "cluster" => Len(speaker_labels) = Len(timestamps)
        /\ dpc = "returned" => Len(diar_return.segments) = Len(timestamps)

\* diarize returned three intervals although the first window was too short
\* after preprocessing and the encoder failed on the second.
C23_Witness ==
    /\ dpc = "returned"
    /\ embed_outcome = <<"short", "error", "embedded">>
    /\ embeddings = <<"zero", "zero", "emb">>
    /\ Len(diar_return.segments) = 3

-----------------------------------------------------------------------------
(* Properties of the pre-flight downgrades in main *)

\* --device cuda was given and torch is missing or reports no CUDA.
CudaUnusable == args0.device = "cuda" /\ env.torch # "cuda"

\* The run got as far as the check of lines 81-107.
PastDeviceCheck ==
    /\ pc \notin {"preflight_input", "preflight_output", "preflight_device"}
    /\ exit_cause \notin {"input not found", "output directory missing"}

\* C24: when CUDA is requested but not usable, or diarization is requested
\* but unavailable, main exits with status 2 before any audio processing
\* unless -y is given; with -y it logs a warning, downgrades (device cpu,
\* diarization off) and goes through the pipeline to write the output: the
\* missing context itself never ends the run.
C24_UnavailableContext ==
    /\ (CudaUnusable /\ PastDeviceCheck) =>
          IF args0.assume_yes
          THEN /\ LogHas("warning", "CUDA requested but not usable")
               /\ args.device = "cpu"
               /\ exit_cause \notin {"cuda unavailable", "import torch failed"}
               /\ exit_cause = "success" => Returned("save_output") /\ written # {}
          ELSE /\ pc = "exited" /\ exit_status = 2
               /\ exit_cause = "cuda unavailable"
               /\ trace = << >> /\ written = {}
    /\ (DiarizationMissing /\ PastDiarizationCheck) =>
          IF args0.assume_yes
          THEN /\ LogHas("warning", MissingMessage)
               /\ ~args.diarize
               /\ exit_cause # "diarization unavailable"
               /\ exit_cause = "success" => Returned("save_output") /\ written # {}
          ELSE /\ pc = "exited" /\ exit_status = 2
               /\ exit_cause = "diarization unavailable"
               /\ trace = << >> /\ written = {}

-----------------------------------------------------------------------------
(* Properties of _segment_audio inside diarize *)

\* 75% of the window length, in samples.
WindowStep == (segment_length * sample_rate * 3) \div 4

\* The window starts range(0, len, step) visits.
WindowStarts == {k * WindowStep : k \in 0..MaxGrains} \cap 0..(audio_len - 1)

WindowEnd(start) == Min(start + segment_length * sample_rate, audio_len)

\* C25: for every waveform length the emitted windows start at consecutive
\* multiples of 75% of the window length, each clipped to the end of the
\* audio; each has start < end and a duration above 5 s and at most 20 s;
\* windows of 5 s or less are dropped, and a waveform of 5 s or less yields
\* no window, so that diarize returns empty 'segments' and 'speakers'.
C25_WindowsOfSegmentAudio ==
    dpc # "segment" =>
        /\ \A i \in DOMAIN timestamps :
              /\ timestamps[i][1] = (i - 1) * WindowStep
              /\ timestamps[i][2] = WindowEnd(timestamps[i][1])
              /\ timestamps[i][1] < timestamps[i][2]
              /\ timestamps[i][2] - timestamps[i][1] > min_segment_seconds * sample_rate
              /\ timestamps[i][2] - timestamps[i][1] <= segment_length * sample_rate
        /\ Len(timestamps) =
              Cardinality({w \in WindowStarts :
                              WindowEnd(w) - w > min_segment_seconds * sample_rate})
        /\ audio_len <= min_segment_seconds * sample_rate =>
              /\ timestamps = << >>
              /\ dpc = "returned"
              /\ diar_return = [segments |-> << >>, speakers |-> << >>]

\* A 35-second waveform: the windows 0-20 s and 15-35 s were emitted and the
\* 5-second tail window 30-35 s was dropped.
C25_Witness ==
    /\ audio_len = 35 * sample_rate
    /\ dpc = "returned"
    /\ timestamps = << <<0, 20 * sample_rate>>, <<15 * sample_rate, 35 * sample_rate>> >>

-----------------------------------------------------------------------------
(* Coverage of the audio by the windows of _segment_audio *)

\* Twice the times probed: every 2.5 s from 0 on, the end of the audio and
\* half a sample before it.
ProbeTimes ==
    ({k * min_segment_seconds * sample_rate : k \in 0..(2 * MaxGrains + 1)}
        \cap 0..(2 * audio_len))
        \cup {2 * audio_len, 2 * audio_len - 1}

\* C26: for every waveform longer than 5 s the kept windows jointly cover the
\* whole audio: they start at 0, each starts no later than its predecessor
\* ends, the last ends at the end of the audio, so every time t with
\* 0 <= t <= duration lies in some emitted interval and the loop of
\* _find_speaker_at_time finds an interval for it instead of falling through
\* to the default label.
C26_WindowsCoverAudio ==
    (audio_len > min_segment_seconds * sample_rate /\ dpc # "segment") =>
        /\ Len(timestamps) >= 1
        /\ timestamps[1][1] = 0
        /\ \A i \in 1..(Len(timestamps) - 1) : timestamps[i + 1][1] <= timestamps[i][2]
        /\ timestamps[Len(timestamps)][2] = audio_len
        /\ \A tt \in ProbeTimes :
              \E i \in DOMAIN timestamps :
                  2 * timestamps[i][1] <= tt /\ tt <= 2 * timestamps[i][2]
        /\ dpc = "returned" =>
              \A tt \in ProbeTimes :
                  \E i \in DOMAIN diar_return.segments :
                      /\ 2 * diar_return.segments[i].start <= tt
                      /\ tt <= 2 * diar_return.segments[i].end

\* A 20-second waveform: the 5-second tail window 15-20 s was dropped and the
\* one window kept reaches the end of the audio.
C26_Witness ==
    /\ audio_len = 20 * sample_rate
    /\ dpc = "returned"
    /\ Len(diar_return.segments) = 1
    /\ diar_return.segments[1].end = audio_len

-----------------------------------------------------------------------------
(* Shape of the output of _merge_similar_speakers *)

\* Labels of the input that the merge pass replaced by another label.
MergedAway ==
    {cluster_labels[i] : i \in {k \in DOMAIN cluster_labels :
                                   speaker_labels[k] # cluster_labels[k]}}

\* C27: for every labelling and every similarity relation the output of
\* _merge_similar_speakers has the input's length; each label is unchanged or
\* replaced by a label of the input; the number of distinct labels does not
\* increase; no label that was merged away appears in the output; and an
\* input with at most one distinct label is returned unchanged.
C27_MergeOutputShape ==
    MergeDone =>
        /\ Len(speaker_labels) = Len(cluster_labels)
        /\ \A i \in DOMAIN speaker_labels : speaker_labels[i] \in Range(cluster_labels)
        /\ \A i, j \in DOMAIN cluster_labels :
              cluster_labels[i] = cluster_labels[j] => speaker_labels[i] = speaker_labels[j]
        /\ Cardinality(Range(speaker_labels)) <= Cardinality(Range(cluster_labels))
        /\ Range(speaker_labels) \cap MergedAway = {}
        /\ Cardinality(Range(cluster_labels)) <= 1 => speaker_labels = cluster_labels

\* Three clusters, every two of them similar: the merge pass
\* put all of them on one label.
C27_Witness ==
    /\ MergeDone
    /\ Cardinality(Range(cluster_labels)) = 3
    /\ \A p \in DOMAIN similarity : similarity[p] > similarity_threshold
    /\ Cardinality(Range(speaker_labels)) = 1
    /\ Cardinality(MergedAway) = 2

-----------------------------------------------------------------------------
(* Speaker labels of the aligned result *)

\* C28: in every result of save_output's alignment path each speaker label
\* attached to a segment is a member of the result's 'speakers' list, and
\* 'speakers' holds exactly the distinct labels of the diarization intervals,
\* without duplicates; also when diarize returned no interval.
C28_LabelsListedInSpeakers ==
    apc = "returned" =>
        LET speakers == heap[r_ref].speakers
        IN  /\ \A i \in DOMAIN AlignedSegments :
                  AlignedSegments[i].speaker \in Range(speakers)
            /\ Range(speakers) = {Intervals[k].speaker : k \in DOMAIN Intervals}
            /\ Len(speakers) = Cardinality(Range(speakers))

-----------------------------------------------------------------------------
(* The path main verifies after save_output *)

\* C29: for every -o value and --format value, whenever save_output returned
\* normally, the path main verifies and reports as FINAL_OUTPUT is the path of
\* the file save_output wrote, so such a run never ends with 'Expected output
\* not found' and exit status 2.
C29_VerifiedPathIsWrittenPath ==
    (Returned("save_output") /\ pc = "exited") =>
        /\ \E w \in written : w.path = PathStr(args.output)
        /\ ~LogHas("error", "Expected output not found")
        /\ exit_status # 2

-----------------------------------------------------------------------------
(* AudioEnhancer._spectral_subtraction (src/src/audio_enhancer.py:112-165).
   The waveform is its length; a sample of enhanced_audio is the set of
   windows whose reconstructed sample has been added to it, and a sample of
   the result is that set with the count it was divided by (count 0: the 0.0
   that np.divide leaves where window_counts is 0). *)

MaxSubtractWindows == 3

window_size == 2048

hop_size == window_size \div 2

\* Samples after the last hop boundary.
SubtractTails == {0, 1, 500, hop_size - 1}

\* Lengths _reduce_noise passes on: shorter than one window, and one to
\* MaxSubtractWindows windows with a tail.
SubtractLens ==
    {100, window_size - 1}
        \cup {window_size + k * hop_size + t :
                 k \in 0..(MaxSubtractWindows - 1), t \in SubtractTails}

InitSubtract ==
    /\ NoDiar /\ NoAlign /\ NoTrans /\ NoMain /\ NoJson
    /\ ppc = "subtract_called"
    /\ p_args \in [level : NoiseLevels \ {-10, 0}]
    /\ p_locals = << >>
    /\ audio0 \in [len : SubtractLens]
    /\ audio = << >>
    /\ steps = << >>
    /\ p_out = "none"

\* lines 117-128: n_windows and the two zero arrays.
SubtractSetup ==
    /\ ppc = "subtract_called"
    /\ p_locals' = [n_windows |-> (audio0.len - window_size) \div hop_size + 1,
                    i |-> 0,
                    window_counts |-> [s \in 1..audio0.len |-> 0]]
    /\ audio' = [s \in 1..audio0.len |-> {}]
    /\ ppc' = "subtract_loop"
    /\ UNCHANGED <<p_args, audio0, steps, p_out>>
    /\ UNCHANGED <<diarVars, alignVars, transVars, mainVars, jsonVars>>

\* lines 131-157: one pass of "for i in range(n_windows)"; the pass adds the
\* reconstructed window to samples start_idx .. end_idx - 1 (0-based).
SubtractWindow ==
    /\ ppc = "subtract_loop"
    /\ p_locals.i < p_locals.n_windows
    /\ LET start_idx == p_locals.i * hop_size
           end_idx == start_idx + window_size
       IN  IF end_idx > audio0.len
           THEN /\ ppc' = "subtract_divide"
                /\ UNCHANGED <<audio, p_locals, steps>>
           ELSE /\ audio' = [s \in 1..audio0.len |->
                                IF start_idx < s /\ s <= end_idx
                                THEN audio[s] \cup {p_locals.i} ELSE audio[s]]
                /\ p_locals' = [p_locals EXCEPT
                                  !.i = @ + 1,
                                  !.window_counts =
                                      [s \in 1..audio0.len |->
                                          IF start_idx < s /\ s <= end_idx
                                          THEN p_locals.window_counts[s] + 1
                                          ELSE p_locals.window_counts[s]]]
                /\ steps' = Append(steps, <<start_idx, end_idx>>)
                /\ ppc' = "subtract_loop"
    /\ UNCHANGED <<p_args, audio0, p_out>>
    /\ UNCHANGED <<diarVars, alignVars, transVars, mainVars, jsonVars>>

\* The end of the range.
SubtractLoopEnd ==
    /\ ppc = "subtract_loop"
    /\ p_locals.i >= p_locals.n_windows
    /\ ppc' = "subtract_divide"
    /\ UNCHANGED <<p_args, p_locals, audio0, audio, steps, p_out>>
    /\ UNCHANGED <<diarVars, alignVars, transVars, mainVars, jsonVars>>

\* lines 160-165: np.divide(..., out=zeros, where=window_counts != 0).
SubtractDivide ==
    /\ ppc = "subtract_divide"
    /\ p_out' = [s \in 1..audio0.len |->
                    IF p_locals.window_counts[s] # 0
                    THEN [sum |-> audio[s], k |-> p_locals.window_counts[s]]
                    ELSE [sum |-> {}, k |-> 0]]
    /\ ppc' = "subtract_returned"
    /\ UNCHANGED <<p_args, p_locals, audio0, audio, steps>>
    /\ UNCHANGED <<diarVars, alignVars, transVars, mainVars, jsonVars>>

NextSubtract == SubtractSetup \/ SubtractWindow \/ SubtractLoopEnd \/ SubtractDivide

SpecSubtract == InitSubtract /\ [][NextSubtract]_vars

-----------------------------------------------------------------------------
(* Properties of _spectral_subtraction *)

\* The analysis windows (hop_size apart, window_size long) that lie over
\* sample s (1-based) of a waveform.
WindowsOver(s) ==
    {i \in 0..(MaxSubtractWindows + 1) : i * hop_size < s /\ s <= i * hop_size + window_size}

\* C30: the output has the input's length; every input sample is covered by
\* k >= 1 analysis windows (k is 1 or 2) and equals the sum of the k
\* reconstructed windows divided by k; no sample is left at zero for want of
\* a window, in the tail and for inputs shorter than one window too.
C30_OverlapAddCoversInput ==
    ppc = "subtract_returned" =>
        /\ Len(p_out) = audio0.len
        /\ \A s \in 1..audio0.len :
              /\ p_out[s].k \in {1, 2}
              /\ p_out[s].k = Cardinality(p_out[s].sum)
              /\ p_out[s].sum \subseteq WindowsOver(s)
              /\ p_out[s].sum # {}

====
